---- MODULE Spec2Model ----
(***************************************************************************)
(* Model of the text pipeline of the educational chatbot: the sectioner    *)
(* (splitChapters), the retrieval-answer composer (demoAnswer), the TF-IDF *)
(* search helpers and the summarizer (summarizeDemo).                      *)
(*                                                                         *)
(* A JavaScript string is modelled as a sequence of one-character strings, *)
(* so that every regular expression of the source is computed character by *)
(* character: a string is the sequence of its UTF-16 code units.  A code   *)
(* unit that has no place in a TLA+ string is written "<U+hhhh>", and a    *)
(* code point above U+FFFF is its surrogate pair.                          *)
(*                                                                         *)
(* A parameter of the source whose name is also the name of a state        *)
(* variable below is written with another name: question as asked, context *)
(* as contextText, sections as sectionList, activeId as activeSection,     *)
(* summary as aiSummary and rawPages as pageTexts.                         *)
(***************************************************************************)
EXTENDS Integers, Sequences, FiniteSets, TLC

(***************************************************************************)
(* Character classes of the regular expressions.                           *)
(***************************************************************************)
UpperChars == (* "ABCDEFGHIJKLMNOPQRSTUVWXYZ" *)
      <<"A","B","C","D","E","F","G","H","I","J","K","L","M","N","O","P","Q","R","S","T","U","V","W","X",
      "Y","Z">>
LowerChars == (* "abcdefghijklmnopqrstuvwxyz" *)
      <<"a","b","c","d","e","f","g","h","i","j","k","l","m","n","o","p","q","r","s","t","u","v","w","x",
      "y","z">>
DigitChars == <<"0","1","2","3","4","5","6","7","8","9">>

UpperSet == {UpperChars[i] : i \in 1..Len(UpperChars)}
LowerSet == {LowerChars[i] : i \in 1..Len(LowerChars)}
DigitSet == {DigitChars[i] : i \in 1..Len(DigitChars)}
\* \w
WordSet == UpperSet \cup LowerSet \cup DigitSet \cup {"_"}
\* \s and the characters String.prototype.trim removes: the WhiteSpace and
\* LineTerminator code points of ECMAScript.  A code point that has no
\* escape in a TLA+ string is written "<U+hhhh>".
UnicodeSpaceSet ==
  {"<U+000B>", "<U+00A0>", "<U+1680>", "<U+2000>", "<U+2001>", "<U+2002>", "<U+2003>",
   "<U+2004>", "<U+2005>", "<U+2006>", "<U+2007>", "<U+2008>", "<U+2009>", "<U+200A>",
   "<U+2028>", "<U+2029>", "<U+202F>", "<U+205F>", "<U+3000>", "<U+FEFF>"}
SpaceSet == {" ", "\n", "\t", "\r", "\f"} \cup UnicodeSpaceSet
\* [,.!?;:]
PunctSet == {",", ".", "!", "?", ";", ":"}
\* [.!?]
SentenceEndSet == {".", "!", "?"}
\* the characters "." does not match
LineTerminatorSet == {"\n", "\r", "<U+2028>", "<U+2029>"}

IsSpace(c) == c \in SpaceSet
IsDot(c) == c \notin LineTerminatorSet

ToLowerChar(c) ==
  IF c \in UpperSet
  THEN LowerChars[CHOOSE i \in 1..Len(UpperChars) : UpperChars[i] = c]
  ELSE c

\* a text as the flag i of a regular expression compares it: without the
\* flag u a character outside ASCII never matches an ASCII letter
IgnoreCase(s) == [i \in 1..Len(s) |-> ToLowerChar(s[i])]

DigitVal(c) == (CHOOSE i \in 1..Len(DigitChars) : DigitChars[i] = c) - 1

\* parseInt(digits, 10) of a string of decimal digits
RECURSIVE parseInt(_)
parseInt(d) ==
  IF Len(d) = 0 THEN 0
  ELSE 10 * parseInt(SubSeq(d, 1, Len(d) - 1)) + DigitVal(d[Len(d)])

\* the decimal text of a natural number, as template literals print it
RECURSIVE NumToStr(_)
NumToStr(n) ==
  IF n < 10 THEN <<DigitChars[n + 1]>>
  ELSE NumToStr(n \div 10) \o <<DigitChars[(n % 10) + 1]>>

(***************************************************************************)
(* String helpers.                                                         *)
(***************************************************************************)
SetMin(S) == CHOOSE x \in S : \A y \in S : x <= y
SetMax(S) == CHOOSE x \in S : \A y \in S : x >= y

(***************************************************************************)
(* String.prototype.toLowerCase: the lowercase mapping of the Unicode      *)
(* Character Database (UnicodeData.txt and SpecialCasing.txt, Unicode 17), *)
(* code point by code point.  A range <<first, last, step, delta>> maps    *)
(* every step-th code point n from first to last to n + delta.  U+0130     *)
(* becomes the two units "i" U+0307, and U+03A3 (capital sigma) becomes    *)
(* the final sigma U+03C2 where the condition Final_Sigma holds, in which  *)
(* the code points of the property Case_Ignorable are skipped and those    *)
(* of the property Cased looked for.                                       *)
(***************************************************************************)
HexDigits == (* "0123456789ABCDEF" *)
      <<"0","1","2","3","4","5","6","7","8","9","A","B","C","D","E","F">>

\* the code unit n as a character, for a unit outside printable ASCII
CodeToken(n) ==
  "<U+" \o HexDigits[n \div 4096 + 1] \o HexDigits[((n \div 256) % 16) + 1]
        \o HexDigits[((n \div 16) % 16) + 1] \o HexDigits[(n % 16) + 1] \o ">"

\* the first high surrogate, the first low surrogate, and the first code
\* point that takes a pair
HighSurrogateBase == 55296
LowSurrogateBase == 56320
SupplementaryBase == 65536
SurrogateSpan == 1024

HighSurrogateSet ==
  {CodeToken(n) : n \in HighSurrogateBase..(HighSurrogateBase + SurrogateSpan - 1)}
LowSurrogateSet ==
  {CodeToken(n) : n \in LowSurrogateBase..(LowSurrogateBase + SurrogateSpan - 1)}

\* the code point of the letter a
LowerABase == 97

\* the code units of the code point n, for a lowercase ASCII letter or a
\* code point outside ASCII
UnitsOf(n) ==
  IF n >= LowerABase /\ n < LowerABase + Len(LowerChars) THEN <<LowerChars[n - LowerABase + 1]>>
  ELSE IF n < SupplementaryBase THEN <<CodeToken(n)>>
  ELSE <<CodeToken(HighSurrogateBase + (n - SupplementaryBase) \div SurrogateSpan),
         CodeToken(LowSurrogateBase + ((n - SupplementaryBase) % SurrogateSpan))>>

\* the tuples of n numbers each that a row of numbers holds
Grouped(row, n) == {SubSeq(row, n * (k - 1) + 1, n * k) : k \in 1..(Len(row) \div n)}

LowerRanges ==
  Grouped(
    <<192, 214, 1, 32, 216, 222, 1, 32, 256, 302, 2, 1, 306, 310, 2, 1,
     313, 327, 2, 1, 330, 374, 2, 1, 376, 376, 1, -121, 377, 381, 2, 1,
     385, 385, 1, 210, 386, 388, 2, 1, 390, 390, 1, 206, 391, 391, 1, 1,
     393, 394, 1, 205, 395, 395, 1, 1, 398, 398, 1, 79, 399, 399, 1, 202,
     400, 400, 1, 203, 401, 401, 1, 1, 403, 403, 1, 205, 404, 404, 1, 207,
     406, 406, 1, 211, 407, 407, 1, 209, 408, 408, 1, 1, 412, 412, 1, 211,
     413, 413, 1, 213, 415, 415, 1, 214, 416, 420, 2, 1, 422, 422, 1, 218,
     423, 423, 1, 1, 425, 425, 1, 218, 428, 428, 1, 1, 430, 430, 1, 218,
     431, 431, 1, 1, 433, 434, 1, 217, 435, 437, 2, 1, 439, 439, 1, 219,
     440, 440, 1, 1, 444, 444, 1, 1, 452, 452, 1, 2, 453, 453, 1, 1,
     455, 455, 1, 2, 456, 456, 1, 1, 458, 458, 1, 2, 459, 475, 2, 1,
     478, 494, 2, 1, 497, 497, 1, 2, 498, 500, 2, 1, 502, 502, 1, -97,
     503, 503, 1, -56, 504, 542, 2, 1, 544, 544, 1, -130, 546, 562, 2, 1,
     570, 570, 1, 10795, 571, 571, 1, 1, 573, 573, 1, -163,
     574, 574, 1, 10792, 577, 577, 1, 1, 579, 579, 1, -195, 580, 580, 1, 69,
     581, 581, 1, 71, 582, 590, 2, 1, 880, 882, 2, 1, 886, 886, 1, 1,
     895, 895, 1, 116, 902, 902, 1, 38, 904, 906, 1, 37, 908, 908, 1, 64,
     910, 911, 1, 63, 913, 929, 1, 32, 931, 939, 1, 32, 975, 975, 1, 8,
     984, 1006, 2, 1, 1012, 1012, 1, -60, 1015, 1015, 1, 1,
     1017, 1017, 1, -7, 1018, 1018, 1, 1, 1021, 1023, 1, -130,
     1024, 1039, 1, 80, 1040, 1071, 1, 32, 1120, 1152, 2, 1,
     1162, 1214, 2, 1, 1216, 1216, 1, 15, 1217, 1229, 2, 1,
     1232, 1326, 2, 1, 1329, 1366, 1, 48, 4256, 4293, 1, 7264,
     4295, 4295, 1, 7264, 4301, 4301, 1, 7264, 5024, 5103, 1, 38864,
     5104, 5109, 1, 8, 7305, 7305, 1, 1, 7312, 7354, 1, -3008,
     7357, 7359, 1, -3008, 7680, 7828, 2, 1, 7838, 7838, 1, -7615,
     7840, 7934, 2, 1, 7944, 7951, 1, -8, 7960, 7965, 1, -8,
     7976, 7983, 1, -8, 7992, 7999, 1, -8, 8008, 8013, 1, -8,
     8025, 8031, 2, -8, 8040, 8047, 1, -8, 8072, 8079, 1, -8,
     8088, 8095, 1, -8, 8104, 8111, 1, -8, 8120, 8121, 1, -8,
     8122, 8123, 1, -74, 8124, 8124, 1, -9, 8136, 8139, 1, -86,
     8140, 8140, 1, -9, 8152, 8153, 1, -8, 8154, 8155, 1, -100,
     8168, 8169, 1, -8, 8170, 8171, 1, -112, 8172, 8172, 1, -7,
     8184, 8185, 1, -128, 8186, 8187, 1, -126, 8188, 8188, 1, -9,
     8486, 8486, 1, -7517, 8490, 8490, 1, -8383, 8491, 8491, 1, -8262,
     8498, 8498, 1, 28, 8544, 8559, 1, 16, 8579, 8579, 1, 1,
     9398, 9423, 1, 26, 11264, 11311, 1, 48, 11360, 11360, 1, 1,
     11362, 11362, 1, -10743, 11363, 11363, 1, -3814,
     11364, 11364, 1, -10727, 11367, 11371, 2, 1, 11373, 11373, 1, -10780,
     11374, 11374, 1, -10749, 11375, 11375, 1, -10783,
     11376, 11376, 1, -10782, 11378, 11378, 1, 1, 11381, 11381, 1, 1,
     11390, 11391, 1, -10815, 11392, 11490, 2, 1, 11499, 11501, 2, 1,
     11506, 11506, 1, 1, 42560, 42604, 2, 1, 42624, 42650, 2, 1,
     42786, 42798, 2, 1, 42802, 42862, 2, 1, 42873, 42875, 2, 1,
     42877, 42877, 1, -35332, 42878, 42886, 2, 1, 42891, 42891, 1, 1,
     42893, 42893, 1, -42280, 42896, 42898, 2, 1, 42902, 42920, 2, 1,
     42922, 42922, 1, -42308, 42923, 42923, 1, -42319,
     42924, 42924, 1, -42315, 42925, 42925, 1, -42305,
     42926, 42926, 1, -42308, 42928, 42928, 1, -42258,
     42929, 42929, 1, -42282, 42930, 42930, 1, -42261, 42931, 42931, 1, 928,
     42932, 42946, 2, 1, 42948, 42948, 1, -48, 42949, 42949, 1, -42307,
     42950, 42950, 1, -35384, 42951, 42953, 2, 1, 42955, 42955, 1, -42343,
     42956, 42970, 2, 1, 42972, 42972, 1, -42561, 42997, 42997, 1, 1,
     65313, 65338, 1, 32, 66560, 66599, 1, 40, 66736, 66771, 1, 40,
     66928, 66938, 1, 39, 66940, 66954, 1, 39, 66956, 66962, 1, 39,
     66964, 66965, 1, 39, 68736, 68786, 1, 64, 68944, 68965, 1, 32,
     71840, 71871, 1, 32, 93760, 93791, 1, 32, 93856, 93880, 1, 27,
     125184, 125217, 1, 34>>,
    4)

CasedRanges ==
  Grouped(
    <<170, 170, 181, 181, 186, 186, 192, 214, 216, 246, 248, 442, 444, 447,
     452, 659, 662, 687, 880, 883, 886, 887, 891, 893, 895, 895, 902, 902,
     904, 906, 908, 908, 910, 929, 931, 1013, 1015, 1153, 1162, 1327,
     1329, 1366, 1376, 1416, 4256, 4293, 4295, 4295, 4301, 4301, 4304, 4346,
     4349, 4351, 5024, 5109, 5112, 5117, 7296, 7306, 7312, 7354, 7357, 7359,
     7424, 7467, 7531, 7543, 7545, 7578, 7680, 7957, 7960, 7965, 7968, 8005,
     8008, 8013, 8016, 8023, 8025, 8025, 8027, 8027, 8029, 8029, 8031, 8061,
     8064, 8116, 8118, 8124, 8126, 8126, 8130, 8132, 8134, 8140, 8144, 8147,
     8150, 8155, 8160, 8172, 8178, 8180, 8182, 8188, 8450, 8450, 8455, 8455,
     8458, 8467, 8469, 8469, 8473, 8477, 8484, 8484, 8486, 8486, 8488, 8488,
     8490, 8493, 8495, 8500, 8505, 8505, 8508, 8511, 8517, 8521, 8526, 8526,
     8544, 8575, 8579, 8580, 9398, 9449, 11264, 11387, 11390, 11492,
     11499, 11502, 11506, 11507, 11520, 11557, 11559, 11559, 11565, 11565,
     42560, 42605, 42624, 42651, 42786, 42863, 42865, 42887, 42891, 42894,
     42896, 42972, 42997, 42998, 43002, 43002, 43824, 43866, 43872, 43880,
     43888, 43967, 64256, 64262, 64275, 64279, 65313, 65338, 65345, 65370,
     66560, 66639, 66736, 66771, 66776, 66811, 66928, 66938, 66940, 66954,
     66956, 66962, 66964, 66965, 66967, 66977, 66979, 66993, 66995, 67001,
     67003, 67004, 68736, 68786, 68800, 68850, 68944, 68965, 68976, 68997,
     71840, 71903, 93760, 93823, 93856, 93880, 93883, 93907, 119808, 119892,
     119894, 119964, 119966, 119967, 119970, 119970, 119973, 119974,
     119977, 119980, 119982, 119993, 119995, 119995, 119997, 120003,
     120005, 120069, 120071, 120074, 120077, 120084, 120086, 120092,
     120094, 120121, 120123, 120126, 120128, 120132, 120134, 120134,
     120138, 120144, 120146, 120485, 120488, 120512, 120514, 120538,
     120540, 120570, 120572, 120596, 120598, 120628, 120630, 120654,
     120656, 120686, 120688, 120712, 120714, 120744, 120746, 120770,
     120772, 120779, 122624, 122633, 122635, 122654, 122661, 122666,
     125184, 125251, 127280, 127305, 127312, 127337, 127344, 127369>>,
    2)

CaseIgnorableRanges ==
  Grouped(
    <<168, 168, 173, 173, 175, 175, 180, 180, 183, 184, 688, 879, 884, 885,
     890, 890, 900, 901, 903, 903, 1155, 1161, 1369, 1369, 1375, 1375,
     1425, 1469, 1471, 1471, 1473, 1474, 1476, 1477, 1479, 1479, 1524, 1524,
     1536, 1541, 1552, 1562, 1564, 1564, 1600, 1600, 1611, 1631, 1648, 1648,
     1750, 1757, 1759, 1768, 1770, 1773, 1807, 1807, 1809, 1809, 1840, 1866,
     1958, 1968, 2027, 2037, 2042, 2042, 2045, 2045, 2070, 2093, 2137, 2139,
     2184, 2184, 2192, 2193, 2199, 2207, 2249, 2306, 2362, 2362, 2364, 2364,
     2369, 2376, 2381, 2381, 2385, 2391, 2402, 2403, 2417, 2417, 2433, 2433,
     2492, 2492, 2497, 2500, 2509, 2509, 2530, 2531, 2558, 2558, 2561, 2562,
     2620, 2620, 2625, 2626, 2631, 2632, 2635, 2637, 2641, 2641, 2672, 2673,
     2677, 2677, 2689, 2690, 2748, 2748, 2753, 2757, 2759, 2760, 2765, 2765,
     2786, 2787, 2810, 2815, 2817, 2817, 2876, 2876, 2879, 2879, 2881, 2884,
     2893, 2893, 2901, 2902, 2914, 2915, 2946, 2946, 3008, 3008, 3021, 3021,
     3072, 3072, 3076, 3076, 3132, 3132, 3134, 3136, 3142, 3144, 3146, 3149,
     3157, 3158, 3170, 3171, 3201, 3201, 3260, 3260, 3263, 3263, 3270, 3270,
     3276, 3277, 3298, 3299, 3328, 3329, 3387, 3388, 3393, 3396, 3405, 3405,
     3426, 3427, 3457, 3457, 3530, 3530, 3538, 3540, 3542, 3542, 3633, 3633,
     3636, 3642, 3654, 3662, 3761, 3761, 3764, 3772, 3782, 3782, 3784, 3790,
     3864, 3865, 3893, 3893, 3895, 3895, 3897, 3897, 3953, 3966, 3968, 3972,
     3974, 3975, 3981, 3991, 3993, 4028, 4038, 4038, 4141, 4144, 4146, 4151,
     4153, 4154, 4157, 4158, 4184, 4185, 4190, 4192, 4209, 4212, 4226, 4226,
     4229, 4230, 4237, 4237, 4253, 4253, 4348, 4348, 4957, 4959, 5906, 5908,
     5938, 5939, 5970, 5971, 6002, 6003, 6068, 6069, 6071, 6077, 6086, 6086,
     6089, 6099, 6103, 6103, 6109, 6109, 6155, 6159, 6211, 6211, 6277, 6278,
     6313, 6313, 6432, 6434, 6439, 6440, 6450, 6450, 6457, 6459, 6679, 6680,
     6683, 6683, 6742, 6742, 6744, 6750, 6752, 6752, 6754, 6754, 6757, 6764,
     6771, 6780, 6783, 6783, 6823, 6823, 6832, 6877, 6880, 6891, 6912, 6915,
     6964, 6964, 6966, 6970, 6972, 6972, 6978, 6978, 7019, 7027, 7040, 7041,
     7074, 7077, 7080, 7081, 7083, 7085, 7142, 7142, 7144, 7145, 7149, 7149,
     7151, 7153, 7212, 7219, 7222, 7223, 7288, 7293, 7376, 7378, 7380, 7392,
     7394, 7400, 7405, 7405, 7412, 7412, 7416, 7417, 7468, 7530, 7544, 7544,
     7579, 7679, 8125, 8125, 8127, 8129, 8141, 8143, 8157, 8159, 8173, 8175,
     8189, 8190, 8203, 8207, 8216, 8217, 8228, 8228, 8231, 8231, 8234, 8238,
     8288, 8292, 8294, 8303, 8305, 8305, 8319, 8319, 8336, 8348, 8400, 8432,
     11388, 11389, 11503, 11505, 11631, 11631, 11647, 11647, 11744, 11775,
     11823, 11823, 12293, 12293, 12330, 12333, 12337, 12341, 12347, 12347,
     12441, 12446, 12540, 12542, 40981, 40981, 42232, 42237, 42508, 42508,
     42607, 42610, 42612, 42621, 42623, 42623, 42652, 42655, 42736, 42737,
     42752, 42785, 42864, 42864, 42888, 42890, 42993, 42996, 43000, 43001,
     43010, 43010, 43014, 43014, 43019, 43019, 43045, 43046, 43052, 43052,
     43204, 43205, 43232, 43249, 43263, 43263, 43302, 43309, 43335, 43345,
     43392, 43394, 43443, 43443, 43446, 43449, 43452, 43453, 43471, 43471,
     43493, 43494, 43561, 43566, 43569, 43570, 43573, 43574, 43587, 43587,
     43596, 43596, 43632, 43632, 43644, 43644, 43696, 43696, 43698, 43700,
     43703, 43704, 43710, 43711, 43713, 43713, 43741, 43741, 43756, 43757,
     43763, 43764, 43766, 43766, 43867, 43871, 43881, 43883, 44005, 44005,
     44008, 44008, 44013, 44013, 64286, 64286, 64434, 64450, 65024, 65039,
     65043, 65043, 65056, 65071, 65106, 65106, 65109, 65109, 65279, 65279,
     65287, 65287, 65294, 65294, 65306, 65306, 65342, 65342, 65344, 65344,
     65392, 65392, 65438, 65439, 65507, 65507, 65529, 65531, 66045, 66045,
     66272, 66272, 66422, 66426, 67456, 67461, 67463, 67504, 67506, 67514,
     68097, 68099, 68101, 68102, 68108, 68111, 68152, 68154, 68159, 68159,
     68325, 68326, 68900, 68903, 68942, 68942, 68969, 68973, 68975, 68975,
     69291, 69292, 69317, 69317, 69370, 69375, 69446, 69456, 69506, 69509,
     69633, 69633, 69688, 69702, 69744, 69744, 69747, 69748, 69759, 69761,
     69811, 69814, 69817, 69818, 69821, 69821, 69826, 69826, 69837, 69837,
     69888, 69890, 69927, 69931, 69933, 69940, 70003, 70003, 70016, 70017,
     70070, 70078, 70089, 70092, 70095, 70095, 70191, 70193, 70196, 70196,
     70198, 70199, 70206, 70206, 70209, 70209, 70367, 70367, 70371, 70378,
     70400, 70401, 70459, 70460, 70464, 70464, 70502, 70508, 70512, 70516,
     70587, 70592, 70606, 70606, 70608, 70608, 70610, 70610, 70625, 70626,
     70712, 70719, 70722, 70724, 70726, 70726, 70750, 70750, 70835, 70840,
     70842, 70842, 70847, 70848, 70850, 70851, 71090, 71093, 71100, 71101,
     71103, 71104, 71132, 71133, 71219, 71226, 71229, 71229, 71231, 71232,
     71339, 71339, 71341, 71341, 71344, 71349, 71351, 71351, 71453, 71453,
     71455, 71455, 71458, 71461, 71463, 71467, 71727, 71735, 71737, 71738,
     71995, 71996, 71998, 71998, 72003, 72003, 72148, 72151, 72154, 72155,
     72160, 72160, 72193, 72202, 72243, 72248, 72251, 72254, 72263, 72263,
     72273, 72278, 72281, 72283, 72330, 72342, 72344, 72345, 72544, 72544,
     72546, 72548, 72550, 72550, 72752, 72758, 72760, 72765, 72767, 72767,
     72850, 72871, 72874, 72880, 72882, 72883, 72885, 72886, 73009, 73014,
     73018, 73018, 73020, 73021, 73023, 73029, 73031, 73031, 73104, 73105,
     73109, 73109, 73111, 73111, 73177, 73177, 73459, 73460, 73472, 73473,
     73526, 73530, 73536, 73536, 73538, 73538, 73562, 73562, 78896, 78912,
     78919, 78933, 90398, 90409, 90413, 90415, 92912, 92916, 92976, 92982,
     92992, 92995, 93504, 93506, 93547, 93548, 94031, 94031, 94095, 94111,
     94176, 94177, 94179, 94180, 94194, 94195, 110576, 110579,
     110581, 110587, 110589, 110590, 113821, 113822, 113824, 113827,
     118528, 118573, 118576, 118598, 119143, 119145, 119155, 119170,
     119173, 119179, 119210, 119213, 119362, 119364, 121344, 121398,
     121403, 121452, 121461, 121461, 121476, 121476, 121499, 121503,
     121505, 121519, 122880, 122886, 122888, 122904, 122907, 122913,
     122915, 122916, 122918, 122922, 122928, 122989, 123023, 123023,
     123184, 123197, 123566, 123566, 123628, 123631, 124139, 124143,
     124398, 124399, 124643, 124643, 124646, 124646, 124654, 124655,
     124661, 124661, 124671, 124671, 125136, 125142, 125252, 125259,
     127995, 127999, 917505, 917505, 917536, 917631, 917760, 917999>>,
    2)

\* the code points with a lowercase mapping of one code point, each with
\* its mapping
LowerPairs ==
  UNION {{<<UnitsOf(n), UnitsOf(n + r[4])>> :
            n \in {m \in r[1]..r[2] : (m - r[1]) % r[3] = 0}} : r \in LowerRanges}
LoweredPoints == {p[1] : p \in LowerPairs}
\* the code units that start a code point whose mapping is not the ASCII one
LoweredUnits == {p[1][1] : p \in LowerPairs} \cup {"<U+0130>"}

\* Case_Ignorable, and Cased without Case_Ignorable
CaseIgnorable ==
  UNION {{UnitsOf(n) : n \in r[1]..r[2]} : r \in CaseIgnorableRanges}
    \cup {<<"'">>, <<".">>, <<":">>, <<"^">>, <<"<U+0060>">>}
Cased ==
  (UNION {{UnitsOf(n) : n \in r[1]..r[2]} : r \in CasedRanges}
     \cup {<<c>> : c \in UpperSet \cup LowerSet}) \ CaseIgnorable

\* whether a code point starts at index i of s: a low surrogate after a high
\* one is the second unit of a pair
StartsPoint(s, i) == ~(i > 1 /\ s[i] \in LowSurrogateSet /\ s[i - 1] \in HighSurrogateSet)

\* the code point that starts at index i of s
PointAt(s, i) ==
  IF s[i] \in HighSurrogateSet /\ i < Len(s) /\ s[i + 1] \in LowSurrogateSet
  THEN <<s[i], s[i + 1]>>
  ELSE <<s[i]>>

\* Final_Sigma: before the sigma at index i a cased letter and then only
\* case-ignorable code points, and after it no cased letter that only
\* case-ignorable code points separate from it
CasedBefore(s, before) ==
  before # {} /\ PointAt(s, SetMax(before)) \in Cased
CasedAfter(s, after) ==
  after # {} /\ PointAt(s, SetMin(after)) \in Cased
FinalSigma(s, i) ==
  /\ CasedBefore(s, {j \in 1..(i - 1) : StartsPoint(s, j) /\ PointAt(s, j) \notin CaseIgnorable})
  /\ ~CasedAfter(s, {j \in (i + 1)..Len(s) : StartsPoint(s, j) /\ PointAt(s, j) \notin CaseIgnorable})

\* the lowercase of the code point p that starts at index i of s
LowerOfPoint(s, i, p) ==
  IF p = <<"<U+03A3>">> /\ FinalSigma(s, i) THEN <<"<U+03C2>">>
  ELSE IF p = <<"<U+0130>">> THEN <<"i", "<U+0307>">>
  ELSE IF p \in LoweredPoints THEN (CHOOSE q \in LowerPairs : q[1] = p)[2]
  ELSE <<ToLowerChar(p[1])>> \o SubSeq(p, 2, Len(p))

RECURSIVE LowerFrom(_, _)
LowerFrom(s, i) ==
  IF i > Len(s) THEN << >>
  ELSE LowerOfPoint(s, i, PointAt(s, i)) \o LowerFrom(s, i + Len(PointAt(s, i)))

\* String.prototype.toLowerCase: where no unit of s starts a code point
\* with a mapping outside ASCII, every unit is mapped by itself
toLowerCase(s) ==
  IF \A i \in 1..Len(s) : s[i] \notin LoweredUnits
  THEN [i \in 1..Len(s) |-> ToLowerChar(s[i])]
  ELSE LowerFrom(s, 1)

\* the first index >= i whose character is not in C (Len(s)+1 if none)
RECURSIVE SkipIn(_, _, _)
SkipIn(s, i, C) ==
  IF i <= Len(s) /\ s[i] \in C THEN SkipIn(s, i + 1, C) ELSE i

\* the last index <= i whose character is not in C (0 if none)
RECURSIVE SkipBack(_, _, _)
SkipBack(s, i, C) ==
  IF i >= 1 /\ s[i] \in C THEN SkipBack(s, i - 1, C) ELSE i

AllIn(s, a, b, C) == \A k \in a..b : s[k] \in C
AllDot(s, a, b) == \A k \in a..b : IsDot(s[k])

StartsWithAt(s, i, p) ==
  /\ i >= 1
  /\ i + Len(p) - 1 <= Len(s)
  /\ \A k \in 1..Len(p) : s[i + k - 1] = p[k]

\* String.prototype.includes
Includes(s, p) == \E i \in 1..(Len(s) - Len(p) + 1) : StartsWithAt(s, i, p)

\* String.prototype.trim
Trim(s) ==
  LET a == SkipIn(s, 1, SpaceSet)
      b == SkipBack(s, Len(s), SpaceSet)
  IN IF a > b THEN << >> ELSE SubSeq(s, a, b)

\* the characters of s at the indices in keep, in order
KeepIdx(s, keep) ==
  LET pairs == [i \in 1..Len(s) |-> <<i, s[i]>>]
      sel   == SelectSeq(pairs, LAMBDA p : p[1] \in keep)
  IN [k \in 1..Len(sel) |-> sel[k][2]]

\* Array.prototype.join
RECURSIVE JoinFrom(_, _, _)
JoinFrom(parts, k, sep) ==
  IF k > Len(parts) THEN << >>
  ELSE IF k = Len(parts) THEN parts[k]
  ELSE parts[k] \o sep \o JoinFrom(parts, k + 1, sep)
Join(parts, sep) == JoinFrom(parts, 1, sep)

\* the pieces of s between the separators: each separator starts at an index
\* i in the domain of ends and runs to ends[i] - 1
RECURSIVE PiecesFrom(_, _, _, _)
PiecesFrom(s, seps, st, ends) ==
  IF seps = {} THEN <<SubSeq(s, st, Len(s))>>
  ELSE LET i == SetMin(seps)
       IN <<SubSeq(s, st, i - 1)>> \o PiecesFrom(s, seps \ {i}, ends[i], ends)

\* the starts of the maximal runs of characters of C that are at least m long
RunStarts(s, C, m) ==
  {i \in 1..Len(s) : /\ s[i] \in C
                     /\ (i = 1 \/ s[i - 1] \notin C)
                     /\ SkipIn(s, i, C) - i >= m}

\* String.prototype.split on a regular expression C{m,} (\n{2,}, \s+, [.!?]+)
SplitOnRuns(s, C, m) ==
  LET seps == RunStarts(s, C, m)
  IN PiecesFrom(s, seps, 1, [i \in seps |-> SkipIn(s, i, C)])

\* String.prototype.split(/\n/): every newline separates
SplitLines(s) ==
  LET seps == {i \in 1..Len(s) : s[i] = "\n"}
  IN PiecesFrom(s, seps, 1, [i \in seps |-> i + 1])

\* String.prototype.split(/(?<=[.!?])\s+/): the whitespace runs that follow
\* sentence-ending punctuation separate
SplitSentences(s) ==
  LET seps == {i \in RunStarts(s, SpaceSet, 1) : i > 1 /\ s[i - 1] \in SentenceEndSet}
  IN PiecesFrom(s, seps, 1, [i \in seps |-> SkipIn(s, i, SpaceSet)])

\* replace(/\s+([,.!?;:])/g, '$1'): whitespace before punctuation is removed
RemoveSpaceBeforePunct(s) ==
  KeepIdx(s, {i \in 1..Len(s) :
    ~(IsSpace(s[i]) /\ LET j == SkipIn(s, i, SpaceSet)
                       IN j <= Len(s) /\ s[j] \in PunctSet)})

\* replace(/\s{2,}/g, ' '): a run of two or more whitespace characters
\* becomes one space
CollapseSpaceRuns(s) ==
  LET inLongRun(i) == /\ IsSpace(s[i])
                      /\ SkipIn(s, i, SpaceSet) - SkipBack(s, i, SpaceSet) - 1 >= 2
      blanked == [i \in 1..Len(s) |-> IF inLongRun(i) THEN " " ELSE s[i]]
  IN KeepIdx(blanked, {i \in 1..Len(blanked) : ~(inLongRun(i) /\ i > 1 /\ IsSpace(s[i - 1]))})

\* replace(/\s+/g, ' '): every whitespace run becomes one space
CollapseAllSpace(s) ==
  LET blanked == [i \in 1..Len(s) |-> IF IsSpace(s[i]) THEN " " ELSE s[i]]
  IN KeepIdx(blanked, {i \in 1..Len(blanked) : ~(IsSpace(s[i]) /\ i > 1 /\ IsSpace(s[i - 1]))})

\* Global replace of word-hyphen-word patterns, '$1$2'. A candidate is a
\* hyphen h whose match would span fromOf[h]..toOf[h] - 1; matches are taken
\* left to right and do not overlap.
RECURSIVE AcceptedFrom(_, _, _, _)
AcceptedFrom(cands, from, fromOf, toOf) ==
  IF cands = {} THEN {}
  ELSE LET h == SetMin(cands)
       IN IF fromOf[h] >= from
          THEN {h} \cup AcceptedFrom(cands \ {h}, toOf[h], fromOf, toOf)
          ELSE AcceptedFrom(cands \ {h}, from, fromOf, toOf)

\* replace(/(\w+)-\s*\n\s*(\w+)/g, '$1$2'): hyphenated line breaks
JoinHyphenBreaks(s) ==
  LET n == Len(s)
      wsEnd(h) == SkipIn(s, h + 1, SpaceSet)
      cands == {h \in 2..n : /\ s[h] = "-"
                             /\ s[h - 1] \in WordSet
                             /\ wsEnd(h) <= n
                             /\ s[wsEnd(h)] \in WordSet
                             /\ \E k \in (h + 1)..(wsEnd(h) - 1) : s[k] = "\n"}
      acc == AcceptedFrom(cands, 1,
                          [h \in cands |-> SkipBack(s, h - 1, WordSet) + 1],
                          [h \in cands |-> SkipIn(s, wsEnd(h), WordSet)])
  IN KeepIdx(s, {i \in 1..Len(s) : ~(\E h \in acc : i >= h /\ i < wsEnd(h))})

\* replace(/(\w+)\s*-\s*(\w+)/g, '$1$2'): a hyphen between two words, with
\* the whitespace around it
JoinHyphenWords(s) ==
  LET n == Len(s)
      wsEnd(h) == SkipIn(s, h + 1, SpaceSet)
      wsStart(h) == SkipBack(s, h - 1, SpaceSet)
      cands == {h \in 2..n : /\ s[h] = "-"
                             /\ wsStart(h) >= 1
                             /\ s[wsStart(h)] \in WordSet
                             /\ wsEnd(h) <= n
                             /\ s[wsEnd(h)] \in WordSet}
      acc == AcceptedFrom(cands, 1,
                          [h \in cands |-> SkipBack(s, wsStart(h), WordSet) + 1],
                          [h \in cands |-> SkipIn(s, wsEnd(h), WordSet)])
  IN KeepIdx(s, {i \in 1..Len(s) : ~(\E h \in acc : i > wsStart(h) /\ i < wsEnd(h))})

\* the index of the first "[[PAGE:<digits>]]" at or after i, 0 if none
FirstMarkerAt(s) ==
  LET isMarker(i) == /\ StartsWithAt(s, i, <<"[","[","P","A","G","E",":">>)
                     /\ LET d == SkipIn(s, i + 7, DigitSet)
                        IN d > i + 7 /\ StartsWithAt(s, d, <<"]","]">>)
      at == {i \in 1..Len(s) : isMarker(i)}
  IN IF at = {} THEN 0 ELSE SetMin(at)

\* replace(/\[\[PAGE:\d+\]\]/g, ''): every page marker is removed
RemovePageMarkers(s) ==
  LET isMarker(i) == /\ StartsWithAt(s, i, <<"[","[","P","A","G","E",":">>)
                     /\ LET d == SkipIn(s, i + 7, DigitSet)
                        IN d > i + 7 /\ StartsWithAt(s, d, <<"]","]">>)
      markerEnd(i) == SkipIn(s, i + 7, DigitSet) + 2
      at == {i \in 1..Len(s) : isMarker(i)}
  IN KeepIdx(s, {k \in 1..Len(s) : ~(\E i \in at : k >= i /\ k < markerEnd(i))})

(***************************************************************************)
(* The sectioner: splitChapters and its helpers.                           *)
(***************************************************************************)

\* an optional page number (startPage?: number): << >> is undefined
NoPage == << >>
SomePage(n) == <<n>>

\* replace(/\n\s*\n/g, '\n\n'): in a whitespace run with two newlines or
\* more, what lies between its first and its last newline is dropped
NormalizeBlankLines(s) ==
  LET lo(i) == SkipBack(s, i, SpaceSet) + 1
      hi(i) == SkipIn(s, i, SpaceSet) - 1
      nls(i) == {k \in lo(i)..hi(i) : s[k] = "\n"}
      dropped(i) == /\ IsSpace(s[i])
                    /\ Cardinality(nls(i)) >= 2
                    /\ i > SetMin(nls(i))
                    /\ i < SetMax(nls(i))
  IN KeepIdx(s, {i \in 1..Len(s) : ~dropped(i)})

cleanTextContent(text) ==
  Trim(NormalizeBlankLines(CollapseSpaceRuns(RemoveSpaceBeforePunct(JoinHyphenBreaks(text)))))

estimateTokens(s) == (Len(s) + 3) \div 4

\* the minimum cleaned length of a flushed section: cleanedText.length > 50
MinSectionLen == 50
\* the fallback window: const chunk = 8
chunk == 8

\* `[[PAGE:${n}]]\n` + t
\* a faulty tag, which puts the marker after the text of the page
TagPageTrailing(t, n) == t \o <<"\n","[","[","P","A","G","E",":">> \o NumToStr(n) \o <<"]","]">>

TagPage(t, n) == <<"[","[","P","A","G","E",":">> \o NumToStr(n) \o <<"]","]","\n">> \o t

\* const all = rawPages.map(...).join('\n\n')
AllText(pageTexts) ==
  Join([i \in 1..Len(pageTexts) |-> TagPage(pageTexts[i], i)], <<"\n","\n">>)

\* all.split(/\n{2,}/).map(b => b.trim()).filter(Boolean)
BlocksOf(all) ==
  LET raw == SplitOnRuns(all, {"\n"}, 2)
      trimmed == [i \in 1..Len(raw) |-> Trim(raw[i])]
  IN SelectSeq(trimmed, LAMBDA b : Len(b) > 0)

\* firstPageOf: the number of the first page marker in the block
firstPageOf(textBlock) ==
  LET i == FirstMarkerAt(textBlock)
  IN IF i = 0 THEN NoPage
     ELSE SomePage(parseInt(SubSeq(textBlock, i + 7, SkipIn(textBlock, i + 7, DigitSet) - 1)))

\* contentPatterns: /^\s*\d+\s*$/, /^[\s\.\-_]{3,}$/, /^\[\[PAGE:\d+\]\]$/
IsContentLine(t) ==
  LET n == Len(t)
      a == SkipIn(t, 1, SpaceSet)
      b == SkipIn(t, a, DigitSet)
      c == SkipIn(t, b, SpaceSet)
  IN \/ (b > a /\ c = n + 1)
     \/ (n >= 3 /\ AllIn(t, 1, n, SpaceSet \cup {".", "-", "_"}))
     \/ (FirstMarkerAt(t) = 1 /\ SkipIn(t, 8, DigitSet) + 1 = n)

HeaderWords == <<<<"c","h","a","p","t","e","r">>, <<"s","e","c","t","i","o","n">>, <<"p","a","r","t">>, <<"u","n","i","t">>>>
RomanSet == {"i", "v", "x", "l", "c", "d", "m"}
CommonSections ==
  {<<"i","n","t","r","o","d","u","c","t","i","o","n">>, <<"c","o","n","c","l","u","s","i","o","n">>, <<"s","u","m","m","a","r","y">>, <<"a","b","s","t","r","a","c","t">>, <<"p","r","e","f","a","c","e">>,
   <<"a","c","k","n","o","w","l","e","d","g","m","e","n","t">>, <<"a","c","k","n","o","w","l","e","d","g","m","e","n","t","s">>}

NoMatch == [matched |-> FALSE, title |-> << >>]
Matched(title) == [matched |-> TRUE, title |-> title]

\* /^(chapter|section|part|unit)\s+([ivxlcdm]+|\d+)[\s\.:]+(.+)$/i : match[3]
MatchChapterN(t) ==
  LET n == Len(t)
      low == IgnoreCase(t)
      kws == {k \in 1..Len(HeaderWords) : StartsWithAt(low, 1, HeaderWords[k])}
  IN IF kws = {} THEN NoMatch
     ELSE LET p1 == Len(HeaderWords[SetMin(kws)]) + 1
              p2 == SkipIn(t, p1, SpaceSet)
              rom == SkipIn(low, p2, RomanSet)
              dig == SkipIn(t, p2, DigitSet)
              \* the title start when the number ends before index r
              titleAt(r) ==
                LET q == SkipIn(t, r, SpaceSet \cup {".", ":"})
                    x == IF q > n THEN n ELSE q
                IN IF r > p2 /\ q > r /\ x > r /\ AllDot(t, x, n) THEN x ELSE 0
              x == IF titleAt(rom) > 0 THEN titleAt(rom) ELSE titleAt(dig)
          IN IF p2 > p1 /\ x > 0 THEN Matched(SubSeq(t, x, n)) ELSE NoMatch

\* /^(\d+[\.\)]\s+.+)$/ : match[1], the whole line.  When whitespace ends the
\* line, \s+ gives its last character back to .+
MatchNumbered(t) ==
  LET n == Len(t)
      d == SkipIn(t, 1, DigitSet)
      w == SkipIn(t, d + 1, SpaceSet)
      x == IF w > n THEN n ELSE w
  IN IF /\ d > 1 /\ d <= n /\ t[d] \in {".", ")"}
        /\ w > d + 1 /\ x > d + 1 /\ AllDot(t, x, n)
     THEN Matched(t) ELSE NoMatch

\* /^([A-Z][A-Z\s:'\-]{10,80})$/ : the whole line
MatchAllCaps(t) ==
  LET n == Len(t)
  IN IF /\ n >= 11 /\ n <= 81 /\ t[1] \in UpperSet
        /\ AllIn(t, 2, n, UpperSet \cup SpaceSet \cup {":", "'", "-"})
     THEN Matched(t) ELSE NoMatch

\* /^#{1,3}\s+(.+)$/ : what follows the hashes and the whitespace
MatchMarkdown(t) ==
  LET n == Len(t)
      h == SkipIn(t, 1, {"#"})
      w == SkipIn(t, h, SpaceSet)
      x == IF w > n THEN n ELSE w
  IN IF h >= 2 /\ h <= 4 /\ w > h /\ x > h /\ AllDot(t, x, n)
     THEN Matched(SubSeq(t, x, n)) ELSE NoMatch

\* /^(.+)\s+\.{3,}\s*\d+$/ : the longest title the dot leader allows
MatchDotLeader(t) ==
  LET n == Len(t)
      tailOK(j) ==
        LET a == SkipIn(t, j, SpaceSet)
            b == SkipIn(t, a, {"."})
            c == SkipIn(t, b, SpaceSet)
            d == SkipIn(t, c, DigitSet)
        IN j <= n /\ IsSpace(t[j]) /\ b - a >= 3 /\ d > c /\ d = n + 1
      ks == {k \in 1..n : AllDot(t, 1, k) /\ tailOK(k + 1)}
  IN IF ks = {} THEN NoMatch ELSE Matched(SubSeq(t, 1, SetMax(ks)))

\* /^([A-Z][a-z\s:]+[A-Z][a-z\s:]{5,})$/ : the whole line
MatchTitleCase(t) ==
  LET n == Len(t)
      L == LowerSet \cup SpaceSet \cup {":"}
  IN IF /\ n >= 8 /\ t[1] \in UpperSet
        /\ \E m \in 3..(n - 5) : /\ t[m] \in UpperSet
                                 /\ AllIn(t, 2, m - 1, L)
                                 /\ AllIn(t, m + 1, n, L)
     THEN Matched(t) ELSE NoMatch

\* /^(introduction|conclusion|summary|abstract|preface|acknowledgments?)$/i
MatchCommonSection(t) ==
  IF IgnoreCase(t) \in CommonSections THEN Matched(t) ELSE NoMatch

\* chapterPatterns, in the order they are tried
ChapterMatches(t) ==
  <<MatchChapterN(t), MatchNumbered(t), MatchAllCaps(t), MatchMarkdown(t),
    MatchDotLeader(t), MatchTitleCase(t), MatchCommonSection(t)>>

\* title.replace(/^#+\s*/, '').trim()
StripHashes(title) ==
  LET h == SkipIn(title, 1, {"#"})
  IN Trim(IF h > 1 THEN SubSeq(title, SkipIn(title, h, SpaceSet), Len(title)) ELSE title)

\* the additional heuristic: 5 < length < 100, starts with a capital, does not
\* end a sentence, and between 10% and 80% of its characters are capitals
LooksLikeTitle(t) ==
  LET n == Len(t)
      capitals == Cardinality({i \in 1..n : t[i] \in UpperSet})
  IN /\ n > 5 /\ n < 100
     /\ t[1] \in UpperSet
     /\ t[n] \notin SentenceEndSet
     /\ 10 * capitals > n
     /\ 10 * capitals < 8 * n

isLikelyHeader(line) ==
  LET trimmed == Trim(line)
      ms == ChapterMatches(trimmed)
      hit == {k \in 1..Len(ms) : ms[k].matched}
  IN IF IsContentLine(trimmed) THEN [isHeader |-> FALSE, title |-> << >>]
     ELSE IF hit # {} THEN [isHeader |-> TRUE, title |-> StripHashes(ms[SetMin(hit)].title)]
     ELSE IF Len(trimmed) > 0 /\ LooksLikeTitle(trimmed)
          THEN [isHeader |-> TRUE, title |-> trimmed]
     ELSE [isHeader |-> FALSE, title |-> << >>]

\* the first line of a block: b.split(/\n/).filter(line => line.trim())[0].trim()
FirstLine(b) ==
  LET lines == SelectSeq(SplitLines(b), LAMBDA l : Len(Trim(l)) > 0)
  IN IF Len(lines) = 0 THEN << >> ELSE Trim(lines[1])

NewSection(id, sourceId, title, startPage, endPage, text) ==
  [id |-> id, sourceId |-> sourceId, title |-> title, startPage |-> startPage,
   endPage |-> endPage, text |-> text, tokensEstimated |-> estimateTokens(text)]

\* a faulty start of the loop: let autoIndex = 2
LoopInitFromTwo == [sections |-> << >>, current |-> << >>, autoIndex |-> 2]

\* the state of the loop over the blocks: the sections pushed so far, the
\* current section (<< >> is null) and autoIndex
LoopInit == [sections |-> << >>, current |-> << >>, autoIndex |-> 1]

\* the cleaned text of the current section
CurrentCleaned(st) == cleanTextContent(Join(st.current[1].text, <<"\n","\n">>))

\* a faulty flush, which keeps every section that has any text
FlushKeepsAnyText(cleanedText) == Len(cleanedText) > 0

\* flush keeps a section only when its cleaned text is long enough
FlushKeeps(cleanedText) == Len(cleanedText) > MinSectionLen

\* flush(endPage): a section's id is its place in the output
flush(st, sourceId, endPage) ==
  IF st.current = << >> THEN st
  ELSE LET cleanedText == CurrentCleaned(st)
       IN [st EXCEPT
             !.sections =
               IF FlushKeeps(cleanedText)
               THEN Append(@, NewSection(Len(@) + 1, sourceId, st.current[1].title,
                                         st.current[1].startPage, endPage, cleanedText))
               ELSE @,
             !.current = << >>]

\* flush(firstPageOf(b) ? firstPageOf(b)! - 1 : undefined)
EndPageBefore(b) ==
  LET p == firstPageOf(b)
  IN IF p # NoPage /\ p[1] # 0 THEN SomePage(p[1] - 1) ELSE NoPage

\* whether a block opens a new section: headerCheck.isHeader && headerCheck.title
StartsSection(b) ==
  LET headerCheck == isLikelyHeader(FirstLine(b))
  IN headerCheck.isHeader /\ Len(headerCheck.title) > 0

\* a faulty iteration: a header block also ends the section before it
ProcessBlockShared(st, sourceId, b) ==
  IF FirstLine(b) = << >> THEN st
  ELSE IF StartsSection(b)
  THEN [flush(IF st.current = << >> THEN st
              ELSE [st EXCEPT !.current[1].text = Append(@, b)],
              sourceId, EndPageBefore(b)) EXCEPT
          !.current = <<[title |-> isLikelyHeader(FirstLine(b)).title,
                         startPage |-> firstPageOf(b),
                         text |-> <<b>>]>>]
  ELSE IF st.current = << >>
  THEN [st EXCEPT
          !.current = <<[title |-> <<"S","e","c","t","i","o","n"," ">> \o NumToStr(st.autoIndex),
                         startPage |-> IF firstPageOf(b) # NoPage THEN firstPageOf(b)
                                       ELSE SomePage(1),
                         text |-> <<b>>]>>,
          !.autoIndex = @ + 1]
  ELSE [st EXCEPT !.current[1].text = Append(@, b)]

\* one iteration of the loop over the blocks
ProcessBlock(st, sourceId, b) ==
  IF FirstLine(b) = << >> THEN st
  ELSE IF StartsSection(b)
  THEN [flush(st, sourceId, EndPageBefore(b)) EXCEPT
          !.current = <<[title |-> isLikelyHeader(FirstLine(b)).title,
                         startPage |-> firstPageOf(b),
                         text |-> <<b>>]>>]
  ELSE IF st.current = << >>
  THEN [st EXCEPT
          !.current = <<[title |-> <<"S","e","c","t","i","o","n"," ">> \o NumToStr(st.autoIndex),
                         startPage |-> IF firstPageOf(b) # NoPage THEN firstPageOf(b)
                                       ELSE SomePage(1),
                         text |-> <<b>>]>>,
          !.autoIndex = @ + 1]
  ELSE [st EXCEPT !.current[1].text = Append(@, b)]

RECURSIVE ProcessBlocks(_, _, _, _)
ProcessBlocks(st, sourceId, blocks, k) ==
  IF k > Len(blocks) THEN st
  ELSE ProcessBlocks(ProcessBlock(st, sourceId, blocks[k]), sourceId, blocks, k + 1)

\* the sections header detection yields, the last one flushed at the end
DetectedSections(pageTexts, sourceId) ==
  flush(ProcessBlocks(LoopInit, sourceId, BlocksOf(AllText(pageTexts)), 1),
        sourceId, SomePage(Len(pageTexts))).sections

Min2(a, b) == IF a < b THEN a ELSE b

\* a faulty fallback window, whose endPage is not clamped to the page count
FallbackWindowUnclamped(pageTexts, sourceId, k) ==
  LET i == k * chunk
      last == Min2(i + chunk, Len(pageTexts))
      rawText == Join([j \in 1..(last - i) |-> TagPage(pageTexts[i + j], i + j)], <<"\n","\n">>)
  IN NewSection(k + 1, sourceId, <<"S","e","c","t","i","o","n"," ">> \o NumToStr(k + 1),
                SomePage(i + 1), SomePage(i + chunk), cleanTextContent(rawText))

\* a faulty fallback window, titled by the index of the loop
FallbackWindowZeroBased(pageTexts, sourceId, k) ==
  LET i == k * chunk
      last == Min2(i + chunk, Len(pageTexts))
      rawText == Join([j \in 1..(last - i) |-> TagPage(pageTexts[i + j], i + j)], <<"\n","\n">>)
  IN NewSection(k + 1, sourceId, <<"S","e","c","t","i","o","n"," ">> \o NumToStr(k),
                SomePage(i + 1), SomePage(last), cleanTextContent(rawText))

\* the k-th fallback window (k = 0, 1, ...): pages k*chunk+1 .. k*chunk+chunk
FallbackWindow(pageTexts, sourceId, k) ==
  LET i == k * chunk
      last == Min2(i + chunk, Len(pageTexts))
      rawText == Join([j \in 1..(last - i) |-> TagPage(pageTexts[i + j], i + j)], <<"\n","\n">>)
  IN NewSection(k + 1, sourceId, <<"S","e","c","t","i","o","n"," ">> \o NumToStr(k + 1),
                SomePage(i + 1), SomePage(last), cleanTextContent(rawText))

\* a faulty fallback, which applies the length rule of flush to its windows
FallbackSectionsFiltered(pageTexts, sourceId) ==
  SelectSeq([k \in 1..((Len(pageTexts) + chunk - 1) \div chunk) |->
               FallbackWindow(pageTexts, sourceId, k - 1)],
            LAMBDA s : Len(s.text) > MinSectionLen)

\* the fallback: fixed windows over all the pages
FallbackSections(pageTexts, sourceId) ==
  [k \in 1..((Len(pageTexts) + chunk - 1) \div chunk) |->
     FallbackWindow(pageTexts, sourceId, k - 1)]

\* whether splitChapters falls back to the fixed windows
TakesFallback(pageTexts, sourceId) == Len(DetectedSections(pageTexts, sourceId)) = 0

splitChapters(pageTexts, sourceId) ==
  LET detected == DetectedSections(pageTexts, sourceId)
  IN IF Len(detected) = 0 THEN FallbackSections(pageTexts, sourceId) ELSE detected

(***************************************************************************)
(* The numbers of the program are IEEE 754 doubles.  A double is the       *)
(* record [neg, sig, exp] that stands for (-1)^neg * sig * 2^exp: sig is   *)
(* a natural below 2^53, of exactly 53 bits unless exp = MinExponent (a    *)
(* subnormal, or zero), and MinExponent <= exp <= MaxExponent.  Infinity   *)
(* has exp = MaxExponent + 1 and sig = 0, and NaN is one more record.      *)
(* Every operation gives the exact result rounded to the nearest double,   *)
(* ties to even.                                                           *)
(*                                                                         *)
(* A natural of any size is the sequence of its limbs in base 2^LimbBits,  *)
(* the least significant first and no zero limb at the top, so that no     *)
(* intermediate value leaves 32 bits.                                      *)
(***************************************************************************)
LimbBits == 14
Limb == 2 ^ LimbBits
SignificandBits == 53
MinExponent == -1074
MaxExponent == 971

Max2(a, b) == IF a > b THEN a ELSE b

RECURSIVE NatOf(_)
NatOf(n) == IF n = 0 THEN << >> ELSE <<n % Limb>> \o NatOf(n \div Limb)

\* a natural below 2^31 back as a number
RECURSIVE NatValueFrom(_, _)
NatValueFrom(a, k) == IF k > Len(a) THEN 0 ELSE a[k] + Limb * NatValueFrom(a, k + 1)
NatValue(a) == NatValueFrom(a, 1)

RECURSIVE Trimmed(_)
Trimmed(a) ==
  IF Len(a) > 0 /\ a[Len(a)] = 0 THEN Trimmed(SubSeq(a, 1, Len(a) - 1)) ELSE a

LimbAt(a, k) == IF k <= Len(a) THEN a[k] ELSE 0

RECURSIVE NatPlusFrom(_, _, _, _)
NatPlusFrom(a, b, k, carry) ==
  IF k > Len(a) /\ k > Len(b) THEN NatOf(carry)
  ELSE <<(LimbAt(a, k) + LimbAt(b, k) + carry) % Limb>>
         \o NatPlusFrom(a, b, k + 1, (LimbAt(a, k) + LimbAt(b, k) + carry) \div Limb)

NatPlus(a, b) == NatPlusFrom(a, b, 1, 0)

\* a - b for a >= b
RECURSIVE NatMinusFrom(_, _, _, _)
NatMinusFrom(a, b, k, borrow) ==
  IF k > Len(a) THEN << >>
  ELSE <<(a[k] - LimbAt(b, k) - borrow) % Limb>>
         \o NatMinusFrom(a, b, k + 1, IF a[k] - LimbAt(b, k) - borrow < 0 THEN 1 ELSE 0)

NatMinus(a, b) == Trimmed(NatMinusFrom(a, b, 1, 0))

RECURSIVE NatLessFrom(_, _, _)
NatLessFrom(a, b, k) ==
  k > 0 /\ (a[k] < b[k] \/ (a[k] = b[k] /\ NatLessFrom(a, b, k - 1)))

NatLess(a, b) == Len(a) < Len(b) \/ (Len(a) = Len(b) /\ NatLessFrom(a, b, Len(a)))

\* a * m + carry for one limb m, from limb k on
RECURSIVE NatTimesLimb(_, _, _, _)
NatTimesLimb(a, m, k, carry) ==
  IF k > Len(a) THEN NatOf(carry)
  ELSE <<(a[k] * m + carry) % Limb>> \o NatTimesLimb(a, m, k + 1, (a[k] * m + carry) \div Limb)

RECURSIVE NatTimesFrom(_, _, _)
NatTimesFrom(a, b, k) ==
  IF k > Len(b) THEN << >>
  ELSE NatPlus(NatTimesLimb(a, b[k], 1, 0), <<0>> \o NatTimesFrom(a, b, k + 1))

NatTimes(a, b) == Trimmed(NatTimesFrom(a, b, 1))

\* the number of bits of a natural
BitLength(a) ==
  IF Len(a) = 0 THEN 0
  ELSE (Len(a) - 1) * LimbBits
         + (CHOOSE t \in 1..LimbBits : 2 ^ t > a[Len(a)] /\ 2 ^ (t - 1) <= a[Len(a)])

\* a * 2^n
ShiftLeft(a, n) ==
  IF Len(a) = 0 THEN << >>
  ELSE [i \in 1..(n \div LimbBits) |-> 0] \o NatTimesLimb(a, 2 ^ (n % LimbBits), 1, 0)

\* floor(a / 2^n)
ShiftRight(a, n) ==
  IF n \div LimbBits >= Len(a) THEN << >>
  ELSE
  Trimmed([i \in 1..(Len(a) - n \div LimbBits) |->
             a[i + n \div LimbBits] \div 2 ^ (n % LimbBits)
               + (LimbAt(a, i + n \div LimbBits + 1) % 2 ^ (n % LimbBits))
                   * 2 ^ (LimbBits - (n % LimbBits))] \o << >>)

\* bit i of a, bit 0 the lowest
BitAt(a, i) == (LimbAt(a, i \div LimbBits + 1) \div 2 ^ (i % LimbBits)) % 2

\* whether the n lowest bits of a are all 0
LowBitsZero(a, n) ==
  /\ \A k \in 1..Min2(Len(a), n \div LimbBits) : a[k] = 0
  /\ LimbAt(a, n \div LimbBits + 1) % 2 ^ (n % LimbBits) = 0

NaN == [neg |-> FALSE, sig |-> <<1>>, exp |-> MaxExponent + 1]
Infinity(neg) == [neg |-> neg, sig |-> << >>, exp |-> MaxExponent + 1]
SignedZero(neg) == [neg |-> neg, sig |-> << >>, exp |-> MinExponent]
DoubleZero == SignedZero(FALSE)

IsNaN(x) == x.exp > MaxExponent /\ Len(x.sig) > 0
IsInfinite(x) == x.exp > MaxExponent /\ Len(x.sig) = 0
IsZero(x) == x.exp <= MaxExponent /\ Len(x.sig) = 0

\* a rounded significand that reached 2^53 is 2^52 with the next exponent,
\* and an exponent beyond the largest is Infinity
Finite(neg, m, e) ==
  IF BitLength(m) > SignificandBits
  THEN IF e + 1 > MaxExponent THEN Infinity(neg)
       ELSE [neg |-> neg, sig |-> ShiftRight(m, 1), exp |-> e + 1]
  ELSE IF e > MaxExponent THEN Infinity(neg)
  ELSE [neg |-> neg, sig |-> m, exp |-> e]

\* m without its drop lowest bits, to the nearest, ties to even
RoundedShift(m, drop) ==
  NatPlus(ShiftRight(m, drop),
          IF BitAt(m, drop - 1) = 1 /\ (BitAt(m, drop) = 1 \/ ~LowBitsZero(m, drop - 1))
          THEN <<1>> ELSE << >>)

\* m * 2^e without its drop lowest bits, rounded
RoundedAt(neg, m, e, drop) ==
  Finite(neg, IF drop <= 0 THEN ShiftLeft(m, 0 - drop) ELSE RoundedShift(m, drop), e + drop)

\* the double nearest to (-1)^neg * m * 2^e, for a natural m of any size
RoundedDouble(neg, m, e) ==
  IF Len(m) = 0 THEN SignedZero(neg)
  ELSE RoundedAt(neg, m, e, Max2(BitLength(m) - SignificandBits, MinExponent - e))

\* the double of a whole number
FromInt(n) == RoundedDouble(n < 0, NatOf(IF n < 0 THEN 0 - n ELSE n), 0)

DoubleNegate(x) == IF IsNaN(x) THEN x ELSE [x EXCEPT !.neg = ~x.neg]

\* the sum of two numbers of one exponent
\* the sign of the sum: that of the larger number, and + for the 0 that two
\* opposite numbers leave
SignOfSum(nx, mx, ny, my) ==
  IF nx = ny THEN nx ELSE IF mx = my THEN FALSE ELSE IF NatLess(mx, my) THEN ny ELSE nx

PlusSameExponent(nx, mx, ny, my, e) ==
  RoundedDouble(SignOfSum(nx, mx, ny, my),
                IF nx = ny THEN NatPlus(mx, my)
                ELSE IF NatLess(mx, my) THEN NatMinus(my, mx) ELSE NatMinus(mx, my),
                e)

\* an exponent difference from which the smaller number is below a quarter
\* of the last place of the larger one, and leaves it as it is
FarBelow == 64

\* x + y for finite x and y with x.exp >= y.exp
PlusAligned(x, y) ==
  IF x.exp - y.exp > FarBelow THEN x
  ELSE PlusSameExponent(x.neg, ShiftLeft(x.sig, x.exp - y.exp), y.neg, y.sig, y.exp)

\* x + y
DoublePlus(x, y) ==
  IF IsNaN(x) \/ IsNaN(y) THEN NaN
  ELSE IF IsInfinite(x) THEN (IF IsInfinite(y) /\ x.neg # y.neg THEN NaN ELSE x)
  ELSE IF IsInfinite(y) THEN y
  ELSE PlusAligned(IF x.exp >= y.exp THEN x ELSE y, IF x.exp >= y.exp THEN y ELSE x)

\* x - y
DoubleMinus(x, y) == DoublePlus(x, DoubleNegate(y))

\* x * y
DoubleTimes(x, y) ==
  IF IsNaN(x) \/ IsNaN(y) THEN NaN
  ELSE IF IsInfinite(x) \/ IsInfinite(y)
  THEN (IF IsZero(x) \/ IsZero(y) THEN NaN ELSE Infinity(x.neg # y.neg))
  ELSE RoundedDouble(x.neg # y.neg, NatTimes(x.sig, y.sig), x.exp + y.exp)

\* one limb of a quotient: the largest q with q * d <= r, for r < d * Limb
\* and a divisor d whose highest limb is at least Limb / 2.  The quotient of
\* the two highest limbs of r by the highest limb of d is at most 2 above it
RECURSIVE QuotientLimbFrom(_, _, _)
QuotientLimbFrom(r, d, q) ==
  IF NatLess(r, Trimmed(NatTimesLimb(d, q, 1, 0))) THEN QuotientLimbFrom(r, d, q - 1) ELSE q

QuotientLimb(r, d) ==
  QuotientLimbFrom(r, d, Min2(Limb - 1,
                              (LimbAt(r, Len(d) + 1) * Limb + LimbAt(r, Len(d))) \div d[Len(d)]))

\* the pair of the quotient and the remainder with one more limb of the
\* dividend below them: q is the quotient so far, r the remainder with the
\* limb below it and m the next limb of the quotient
QuotientWith(q, r, d, m) == <<<<m>> \o q, NatMinus(r, Trimmed(NatTimesLimb(d, m, 1, 0)))>>

QuotientNext(st, limb, d) ==
  IF Len(st[2]) = 0 /\ limb = 0 THEN <<<<0>> \o st[1], << >>>>
  ELSE QuotientWith(st[1], Trimmed(<<limb>> \o st[2]), d,
                    QuotientLimb(Trimmed(<<limb>> \o st[2]), d))

\* long division of the limbs of u from limb k up by d: the pair of the
\* quotient and the remainder.  Fewer limbs than d has are a remainder
RECURSIVE QuotientLimbs(_, _, _)
QuotientLimbs(u, d, k) ==
  IF k + Len(d) > Len(u) + 1 THEN <<<< >>, SubSeq(u, k, Len(u))>>
  ELSE QuotientNext(QuotientLimbs(u, d, k + 1), u[k], d)

\* the pair of floor(u / d) and u % d, for d with a highest limb of at least
\* Limb / 2
NatDivide(u, d) == QuotientLimbs(u, d, 1)

\* the bits of a quotient kept below its leading bit; what is left of the
\* division is one more bit below them
QuotientWidth == 56

\* the quotient st[1] with the exponent e, rounded: a remainder st[2] that
\* is not 0 is one more bit below the quotient
RoundedQuotient(neg, st, e) ==
  RoundedDouble(neg, NatTimesLimb(Trimmed(st[1]), 2, 1, IF Len(st[2]) = 0 THEN 0 ELSE 1), e - 1)

\* mx * 2^ex / (my * 2^ey) for significands of 53 bits: the divisor is
\* shifted to whole limbs
DivideAligned(neg, mx, ex, my, ey) ==
  RoundedQuotient(neg,
                  NatDivide(ShiftLeft(mx, QuotientWidth + 4 * LimbBits - SignificandBits),
                            ShiftLeft(my, 4 * LimbBits - SignificandBits)),
                  ex - ey - QuotientWidth)

\* x / y
DoubleDivide(x, y) ==
  IF IsNaN(x) \/ IsNaN(y) THEN NaN
  ELSE IF IsInfinite(x) THEN (IF IsInfinite(y) THEN NaN ELSE Infinity(x.neg # y.neg))
  ELSE IF IsInfinite(y) THEN SignedZero(x.neg # y.neg)
  ELSE IF IsZero(y) THEN (IF IsZero(x) THEN NaN ELSE Infinity(x.neg # y.neg))
  ELSE IF IsZero(x) THEN SignedZero(x.neg # y.neg)
  ELSE DivideAligned(x.neg # y.neg,
                     ShiftLeft(x.sig, SignificandBits - BitLength(x.sig)),
                     x.exp - (SignificandBits - BitLength(x.sig)),
                     ShiftLeft(y.sig, SignificandBits - BitLength(y.sig)),
                     y.exp - (SignificandBits - BitLength(y.sig)))

\* the integer square root of n by Heron's method: from x >= sqrt(n), the
\* mean y of x and n / x is not below the root, and is the root once it no
\* longer falls
RECURSIVE RootFrom(_, _, _)
RootFrom(x, n, y) ==
  IF NatLess(y, x)
  THEN RootFrom(y, n, ShiftRight(NatPlus(y, Trimmed(NatDivide(n, y)[1])), 1))
  ELSE x

\* the bits of a root
RootWidth == 56

\* floor(sqrt(n)) for 2^(2 * RootWidth - 2) <= n < 2^(2 * RootWidth)
RootOf(n, x) == RootFrom(x, n, ShiftRight(NatPlus(x, Trimmed(NatDivide(n, x)[1])), 1))

\* the root r of n with the exponent e, and one more bit below it when the
\* root is not exact
RoundedRoot(r, n, e) ==
  RoundedDouble(FALSE, NatTimesLimb(r, 2, 1, IF NatTimes(r, r) = n THEN 0 ELSE 1), e - 1)

\* sqrt(m * 2^e) for a significand of 53 bits: m is shifted to 2 * RootWidth
\* bits or one less, to an even exponent
RootShifted(n, e) == RoundedRoot(RootOf(n, NatMinus(ShiftLeft(<<1>>, RootWidth), <<1>>)), n, e)

RootAligned(m, e, shift) == RootShifted(ShiftLeft(m, shift), (e - shift) \div 2)

\* Math.sqrt(x)
MathSqrt(x) ==
  IF IsNaN(x) THEN NaN
  ELSE IF IsZero(x) THEN x
  ELSE IF x.neg THEN NaN
  ELSE IF IsInfinite(x) THEN x
  ELSE RootAligned(ShiftLeft(x.sig, SignificandBits - BitLength(x.sig)),
                   x.exp - (SignificandBits - BitLength(x.sig)),
                   2 * RootWidth - SignificandBits
                     - ((x.exp + BitLength(x.sig) + 2 * RootWidth) % 2))

\* x < y
DoubleLess(x, y) ==
  IF IsNaN(x) \/ IsNaN(y) THEN FALSE
  ELSE IF IsZero(x) /\ IsZero(y) THEN FALSE
  ELSE IF x.neg # y.neg THEN x.neg
  ELSE IF x.neg THEN y.exp < x.exp \/ (y.exp = x.exp /\ NatLess(y.sig, x.sig))
  ELSE x.exp < y.exp \/ (x.exp = y.exp /\ NatLess(x.sig, y.sig))

\* x === y
DoubleEqual(x, y) ==
  IF IsNaN(x) \/ IsNaN(y) THEN FALSE ELSE (IsZero(x) /\ IsZero(y)) \/ x = y

(***************************************************************************)
(* Math.log, as V8 computes it: the logarithm of fdlibm (e_log.c).  x is   *)
(* 2^k * (1 + f) with sqrt(2)/2 < 1 + f < sqrt(2); with s = f / (2 + f),   *)
(* log(1 + f) = f - s * (f - R) and R a polynomial in s * s.               *)
(***************************************************************************)
One == [neg |-> FALSE, sig |-> <<0, 0, 0, 1024>>, exp |-> -52]
Two == [neg |-> FALSE, sig |-> <<0, 0, 0, 1024>>, exp |-> -51]
Half == [neg |-> FALSE, sig |-> <<0, 0, 0, 1024>>, exp |-> -53]
\* 0.33333333333333333
Third == [neg |-> FALSE, sig |-> <<5461, 5461, 5461, 1365>>, exp |-> -54]
\* 2^54
Two54 == [neg |-> FALSE, sig |-> <<0, 0, 0, 1024>>, exp |-> 2]
\* 6.93147180369123816490e-01
Ln2Hi == [neg |-> FALSE, sig |-> <<0, 15232, 9263, 1419>>, exp |-> -53]
\* 1.90821492927058770002e-10
Ln2Lo == [neg |-> FALSE, sig |-> <<15478, 5604, 7923, 1678>>, exp |-> -85]
\* 6.666666666666735130e-01
Lg1 == [neg |-> FALSE, sig |-> <<5523, 5461, 5461, 1365>>, exp |-> -53]
\* 3.999999999940941908e-01
Lg2 == [neg |-> FALSE, sig |-> <<14852, 9823, 6553, 1638>>, exp |-> -54]
\* 2.857142874366239149e-01
Lg3 == [neg |-> FALSE, sig |-> <<4953, 4234, 4681, 1170>>, exp |-> -54]
\* 2.222219843214978396e-01
Lg4 == [neg |-> FALSE, sig |-> <<14511, 13881, 7249, 1820>>, exp |-> -55]
\* 1.818357216161805012e-01
Lg5 == [neg |-> FALSE, sig |-> <<990, 6956, 9801, 1489>>, exp |-> -55]
\* 1.531383769920937332e-01
Lg6 == [neg |-> FALSE, sig |-> <<1695, 483, 8349, 1254>>, exp |-> -55]
\* 1.479819860511658591e-01
Lg7 == [neg |-> FALSE, sig |-> <<4676, 15609, 4397, 1212>>, exp |-> -55]

\* the 20 highest bits of the fraction of a double of 53 bits
FractionBits == 20
HighFraction(x) == NatValue(ShiftRight(x.sig, SignificandBits - 1 - FractionBits)) - 2 ^ FractionBits

\* the fraction from which the significand is halved: sqrt(2) is 0x3ff6a09e...
Sqrt2Fraction == 434332
\* the fractions 0x6147a and 0x6b851 between which the sum takes hfsq
HfsqFrom == 398458
HfsqTo == 440401

\* A computation is a list of steps <<name, sign, a, b>>: each step gives its
\* name to the double a sign b, for the values a and b of names given before.
\* The values are the list of the [name, value] so far.
ValueOf(vals, name) == vals[CHOOSE i \in 1..Len(vals) : vals[i].name = name].value

Applied(sign, x, y) ==
  IF sign = "*" THEN DoubleTimes(x, y)
  ELSE IF sign = "/" THEN DoubleDivide(x, y)
  ELSE DoublePlus(x, IF sign = "-" THEN DoubleNegate(y) ELSE y)

StepValue(vals, step) ==
  [name |-> step[1], value |-> Applied(step[2], ValueOf(vals, step[3]), ValueOf(vals, step[4]))]

\* the value of the last step, from the values given before the steps
RECURSIVE Computed(_, _, _)
Computed(steps, vals, given) ==
  IF Len(vals) = given + Len(steps) THEN vals[Len(vals)].value
  ELSE Computed(steps, Append(vals, StepValue(vals, steps[Len(vals) - given + 1])), given)

\* the values a logarithm starts from
LogGiven(f, k) ==
  <<[name |-> "f", value |-> f], [name |-> "dk", value |-> FromInt(k)],
    [name |-> "0.5", value |-> Half], [name |-> "0.333", value |-> Third],
    [name |-> "2.0", value |-> Two],
    [name |-> "ln2_hi", value |-> Ln2Hi], [name |-> "ln2_lo", value |-> Ln2Lo],
    [name |-> "Lg1", value |-> Lg1], [name |-> "Lg2", value |-> Lg2],
    [name |-> "Lg3", value |-> Lg3], [name |-> "Lg4", value |-> Lg4],
    [name |-> "Lg5", value |-> Lg5], [name |-> "Lg6", value |-> Lg6],
    [name |-> "Lg7", value |-> Lg7]>>

\* f == 0 and k != 0: dk * ln2_hi + dk * ln2_lo
LogOfPowerOfTwo ==
  <<<<"hi", "*", "dk", "ln2_hi">>, <<"lo", "*", "dk", "ln2_lo">>, <<"log", "+", "hi", "lo">>>>

\* f - t for k = 0, and dk * ln2_hi - ((t - dk * ln2_lo) - f) otherwise
LogSum(k, t) ==
  IF k = 0 THEN <<<<"log", "-", "f", t>>>>
  ELSE <<<<"lo", "*", "dk", "ln2_lo">>, <<"d1", "-", t, "lo">>, <<"d2", "-", "d1", "f">>,
         <<"hi", "*", "dk", "ln2_hi">>, <<"log", "-", "hi", "d2">>>>

\* |f| < 2^-20: R = f * f * (0.5 - 0.33333333333333333 * f)
LogNearOne ==
  <<<<"ff", "*", "f", "f">>, <<"r1", "*", "0.333", "f">>, <<"r2", "-", "0.5", "r1">>,
    <<"R", "*", "ff", "r2">>>>

\* s = f / (2.0 + f), z = s * s, w = z * z,
\* t1 = w * (Lg2 + w * (Lg4 + w * Lg6)),
\* t2 = z * (Lg1 + w * (Lg3 + w * (Lg5 + w * Lg7))), R = t2 + t1
LogPolynomial ==
  <<<<"2+f", "+", "2.0", "f">>, <<"s", "/", "f", "2+f">>, <<"z", "*", "s", "s">>,
    <<"w", "*", "z", "z">>,
    <<"a1", "*", "w", "Lg6">>, <<"a2", "+", "Lg4", "a1">>, <<"a3", "*", "w", "a2">>,
    <<"a4", "+", "Lg2", "a3">>, <<"t1", "*", "w", "a4">>,
    <<"b1", "*", "w", "Lg7">>, <<"b2", "+", "Lg5", "b1">>, <<"b3", "*", "w", "b2">>,
    <<"b4", "+", "Lg3", "b3">>, <<"b5", "*", "w", "b4">>, <<"b6", "+", "Lg1", "b5">>,
    <<"t2", "*", "z", "b6">>,
    <<"R", "+", "t2", "t1">>>>

\* hfsq = 0.5 * f * f, and f - (hfsq - s * (hfsq + R)) for k = 0,
\* dk * ln2_hi - ((hfsq - (s * (hfsq + R) + dk * ln2_lo)) - f) otherwise
LogWithHfsq(k) ==
  <<<<"hf", "*", "0.5", "f">>, <<"hfsq", "*", "hf", "f">>, <<"c1", "+", "hfsq", "R">>,
    <<"c2", "*", "s", "c1">>>>
    \o (IF k = 0 THEN <<<<"c3", "-", "hfsq", "c2">>, <<"log", "-", "f", "c3">>>>
        ELSE <<<<"lo", "*", "dk", "ln2_lo">>, <<"d1", "+", "c2", "lo">>,
               <<"d2", "-", "hfsq", "d1">>, <<"d3", "-", "d2", "f">>,
               <<"hi", "*", "dk", "ln2_hi">>, <<"log", "-", "hi", "d3">>>>)

\* f - s * (f - R) for k = 0, dk * ln2_hi - ((s * (f - R) - dk * ln2_lo) - f)
\* otherwise
LogWithoutHfsq(k) == <<<<"e1", "-", "f", "R">>, <<"e2", "*", "s", "e1">>>> \o LogSum(k, "e2")

\* the steps of log(2^k * (1 + f)), hx the 20 highest bits of the fraction
\* of x, for f or k other than 0
LogSteps(f, hx, k) ==
  IF (hx + 2) % 2 ^ FractionBits < 3
  THEN (IF IsZero(f) THEN LogOfPowerOfTwo ELSE LogNearOne \o LogSum(k, "R"))
  ELSE LogPolynomial
         \o (IF hx >= HfsqFrom /\ hx <= HfsqTo THEN LogWithHfsq(k) ELSE LogWithoutHfsq(k))

\* log(2^k * (1 + f))
LogReduced(f, hx, k) ==
  IF IsZero(f) /\ k = 0 THEN DoubleZero
  ELSE Computed(LogSteps(f, hx, k), LogGiven(f, k), Len(LogGiven(f, k)))

\* 1 from the fraction on from which the significand is halved, else 0
Halved(hx) == IF hx >= Sqrt2Fraction THEN 1 ELSE 0

\* the logarithm of a positive double of 53 bits, times 2^k
LogNormal(x, hx, k) ==
  LogReduced(DoubleMinus([x EXCEPT !.exp = 1 - SignificandBits - Halved(hx)], One), hx,
             k + x.exp + SignificandBits - 1 + Halved(hx))

LogScaled(x, k) == LogNormal(x, HighFraction(x), k)

\* a double below 2^-1022 is taken times 2^54
LogOfPositive(x, small) ==
  LogScaled(IF small THEN DoubleTimes(x, Two54) ELSE x, IF small THEN 0 - 54 ELSE 0)

\* Math.log(x)
MathLog(x) ==
  IF IsNaN(x) THEN NaN
  ELSE IF IsZero(x) THEN Infinity(TRUE)
  ELSE IF x.neg THEN NaN
  ELSE IF IsInfinite(x) THEN x
  ELSE LogOfPositive(x, BitLength(x.sig) < SignificandBits)
(***************************************************************************)
(* search.ts: tokenize, tfidfParagraphs, vectorizeQuery, cosine.           *)
(*                                                                         *)
(* A Map is the sequence of its entries [key, value] in insertion order,   *)
(* which is the order forEach visits them in.  A weight is a double, and   *)
(* so is every sum, product, square root and quotient of cosine.           *)
(***************************************************************************)
Take(seq, k) == SubSeq(seq, 1, Min2(k, Len(seq)))
TermSet(toks) == {toks[i] : i \in 1..Len(toks)}
Count(toks, t) == Cardinality({i \in 1..Len(toks) : toks[i] = t})

\* a faulty tokenize, without filter(Boolean): the empty pieces stay
tokenizeUnfiltered(text) ==
  LET low == toLowerCase(text)
      blanked == [i \in 1..Len(low) |->
                    IF low[i] \in LowerSet \cup DigitSet \cup SpaceSet THEN low[i] ELSE " "]
  IN SplitOnRuns(blanked, SpaceSet, 1)

\* text.toLowerCase().replace(/[^a-z0-9\s]/g, ' ').split(/\s+/).filter(Boolean)
tokenize(text) ==
  LET low == toLowerCase(text)
      blanked == [i \in 1..Len(low) |->
                    IF low[i] \in LowerSet \cup DigitSet \cup SpaceSet THEN low[i] ELSE " "]
  IN SelectSeq(SplitOnRuns(blanked, SpaceSet, 1), LAMBDA t : Len(t) > 0)

MapKeys(m) == {m[i].key : i \in 1..Len(m)}
MapHas(m, k) == \E i \in 1..Len(m) : m[i].key = k
MapGet(m, k) == m[CHOOSE i \in 1..Len(m) : m[i].key = k].value

\* the terms of a token list in the order of their first occurrence: the
\* insertion order of a Map or a Set filled from the list
TermsInOrder(toks) ==
  KeepIdx(toks, {i \in 1..Len(toks) : \A j \in 1..(i - 1) : toks[j] # toks[i]})

\* Math.log((N + 1) / (df + 1)) + 1
idf(N, dfv) == DoublePlus(MathLog(DoubleDivide(FromInt(N + 1), FromInt(dfv + 1))), One)

\* the values of idf for the corpora of at most CachedDocs paragraphs,
\* computed once: IdfValues[N + 1][df + 1] = idf(N, df)
CachedDocs == 6

IdfValues ==
  [n \in 1..(CachedDocs + 1) |->
     [d \in 1..(CachedDocs + 1) |-> idf(n - 1, d - 1)] \o << >>] \o << >>

\* idf(N, df), looked up where it is stored
idfOf(N, dfv) ==
  IF N \in 0..CachedDocs /\ dfv \in 0..CachedDocs THEN IdfValues[N + 1][dfv + 1] ELSE idf(N, dfv)

\* df.get(t) || 0
FrequencyOf(df, t) == IF MapHas(df, t) THEN MapGet(df, t) ELSE 0

\* the entries of vec: for each term in the order of tf, f * idf
WeightsOf(toks, terms, df, N) ==
  [k \in 1..Len(terms) |->
     [key |-> terms[k],
      value |-> DoubleTimes(FromInt(Count(toks, terms[k])),
                            idfOf(N, FrequencyOf(df, terms[k])))]] \o << >>

\* the term frequencies of a token list, weighted
WeightVector(toks, df, N) == WeightsOf(toks, TermsInOrder(toks), df, N)

RECURSIVE Flattened(_, _)
Flattened(docs, k) == IF k > Len(docs) THEN << >> ELSE docs[k] \o Flattened(docs, k + 1)

\* a faulty table, without the Set: every occurrence of a term is counted
OccurrencesOf(docs, terms) ==
  [k \in 1..Len(terms) |->
     [key |-> terms[k],
      value |-> Cardinality({p \in (1..Len(docs)) \X (1..Len(Flattened(docs, 1))) :
                               p[2] <= Len(docs[p[1]]) /\ docs[p[1]][p[2]] = terms[k]})]] \o << >>

DocumentFrequencyOfOccurrences(docs) == OccurrencesOf(docs, TermsInOrder(Flattened(docs, 1)))

\* the entries of df: for each term, the number of documents that hold it
FrequenciesOf(docs, terms) ==
  [k \in 1..Len(terms) |->
     [key |-> terms[k],
      value |-> Cardinality({i \in 1..Len(docs) : terms[k] \in TermSet(docs[i])})]] \o << >>

\* the document-frequency table: for (const t of new Set(d)) df.set(t,
\* (df.get(t) || 0) + 1) over the documents in order
DocumentFrequency(docs) == FrequenciesOf(docs, TermsInOrder(Flattened(docs, 1)))

VectorsOf(docs, df) == [i \in 1..Len(docs) |-> WeightVector(docs[i], df, Len(docs))] \o << >>

IndexWith(docs, df) == [vectors |-> VectorsOf(docs, df), vocabulary |-> df]

TokenizedAll(paragraphs) == [i \in 1..Len(paragraphs) |-> tokenize(paragraphs[i])] \o << >>

IndexOf(docs) == IndexWith(docs, DocumentFrequency(docs))

tfidfParagraphs(paragraphs) == IndexOf(TokenizedAll(paragraphs))

vectorizeQuery(q, df, N) == WeightVector(tokenize(q), df, N)

\* b.get(k) || 0: a value that is missing, 0 or NaN gives 0
ValueOrZero(b, k) ==
  IF MapHas(b, k) /\ ~IsZero(MapGet(b, k)) /\ ~IsNaN(MapGet(b, k)) THEN MapGet(b, k)
  ELSE DoubleZero

\* dot += va * (b.get(k) || 0) over the entries of a from entry k on, dot
\* the sum so far; a sum that is NaN stays NaN
RECURSIVE DotProductFrom(_, _, _, _)
DotProductFrom(a, b, k, dot) ==
  IF IsNaN(dot) \/ k > Len(a) THEN dot
  ELSE DotProductFrom(a, b, k + 1,
                      DoublePlus(dot, DoubleTimes(a[k].value, ValueOrZero(b, a[k].key))))

DotProduct(a, b) == DotProductFrom(a, b, 1, DoubleZero)

\* na += va * va over the entries of a from entry k on, na the sum so far
RECURSIVE SquareSumFrom(_, _, _)
SquareSumFrom(a, k, na) ==
  IF IsNaN(na) \/ k > Len(a) THEN na
  ELSE SquareSumFrom(a, k + 1, DoublePlus(na, DoubleTimes(a[k].value, a[k].value)))

SquareSum(a) == SquareSumFrom(a, 1, DoubleZero)

\* 1e-8
Epsilon == [neg |-> FALSE, sig |-> <<3130, 2242, 6382, 1374>>, exp |-> -79]

\* a faulty denominator, without the 1e-8
DenominatorWithoutEpsilon(na, nb) == DoubleTimes(MathSqrt(na), MathSqrt(nb))

\* Math.sqrt(na) * Math.sqrt(nb) + 1e-8
Denominator(na, nb) == DoublePlus(DoubleTimes(MathSqrt(na), MathSqrt(nb)), Epsilon)

\* dot / (Math.sqrt(na) * Math.sqrt(nb) + 1e-8)
cosine(a, b) ==
  DoubleDivide(DotProduct(a, b), Denominator(SquareSum(a), SquareSum(b)))

\* whether the comparator (a, b) => b.score - a.score puts x before y
ScoreGreater(x, y) == DoubleLess(DoubleMinus(y, x), DoubleZero)

(***************************************************************************)
(* The retrieval-answer composer: demoAnswer and its helpers.              *)
(***************************************************************************)
\* the paragraph floor of generateRuleBasedAnswer: p.length > 50
MinParagraphLen == 50
\* the paragraph floor of findRelevantContentByTerms: p.length > 30
MinKeywordParagraphLen == 30
\* .slice(0, 3) of the ranking and of the keyword matches
TopK == 3
\* s.score > 0.1
RelevanceFloor == [neg |-> FALSE, sig |-> <<6554, 9830, 6553, 1638>>, exp |-> -56]
\* extractKeyTerms: word.length > 2 and .slice(0, 5)
MinKeyTermLen == 2
MaxKeyTerms == 5
\* generateEducationalResponse: substring(0, 400), length > 10, slice(0, 3)
EducationalChars == 400
MinEducationalSentenceLen == 10
EducationalSentences == 3
\* generateNaturalAnswer: slice(0, 1000), length > 20, slice(0, 6)
AnswerChars == 1000
MinAnswerSentenceLen == 20
AnswerSentences == 6

\* an optional section id (activeId?: string): << >> is undefined
NoId == << >>

\* a faulty cleanContent, which leaves the line breaks in place
cleanContentKeepingLines(content) ==
  Trim(JoinHyphenWords(RemoveSpaceBeforePunct(RemovePageMarkers(content))))

cleanContent(content) ==
  Trim(CollapseSpaceRuns(JoinHyphenWords(RemoveSpaceBeforePunct(
    CollapseAllSpace(RemovePageMarkers(content))))))

\* a faulty lookup, which takes the first section whatever the active id
SourceSectionFirst(sectionList, activeSection) ==
  IF Len(sectionList) > 0 THEN <<sectionList[1]>> ELSE << >>

\* getSourceInfo: the section with the active id, or else the first one
SourceSection(sectionList, activeSection) ==
  LET hit == {i \in 1..Len(sectionList) : activeSection = <<sectionList[i].id>>}
  IN IF hit # {} THEN <<sectionList[SetMin(hit)]>>
     ELSE IF Len(sectionList) > 0 THEN <<sectionList[1]>>
     ELSE << >>

\* a page number is truthy when it is defined and not 0
PageTruthy(p) == p # NoPage /\ p[1] # 0

getSourceInfo(sectionList, activeSection) ==
  LET found == SourceSection(sectionList, activeSection)
  IN IF found = << >> THEN (* "Source information not available" *)
      <<"S","o","u","r","c","e"," ","i","n","f","o","r","m","a","t","i","o","n"," ","n","o","t"," ","a",
      "v","a","i","l","a","b","l","e">>
     ELSE LET sec == found[1]
              pageInfo ==
                IF PageTruthy(sec.startPage) /\ PageTruthy(sec.endPage)
                THEN <<"p","a","g","e","s"," ">> \o NumToStr(sec.startPage[1]) \o <<"-">> \o NumToStr(sec.endPage[1])
                ELSE IF PageTruthy(sec.startPage)
                THEN <<"p","a","g","e"," ">> \o NumToStr(sec.startPage[1])
                ELSE <<"s","o","u","r","c","e"," ","d","o","c","u","m","e","n","t">>
          IN <<"B","a","s","e","d"," ","o","n"," ","\"">> \o sec.title \o <<"\""," ","f","r","o","m"," ">> \o pageInfo

\* `\n\n*${source}*`
CitationLine(source) == <<"\n","\n","*">> \o source \o <<"*">>

explanationKeywords ==
  <<<<"e","x","p","l","a","i","n">>, <<"s","i","m","p","l","e","r">>, <<"s","i","m","p","l","e">>, <<"b","a","s","i","c">>, <<"b","e","g","i","n","n","e","r">>, <<"e","a","s","y">>,
    <<"u","n","d","e","r","s","t","a","n","d">>, <<"c","l","a","r","i","f","y">>, <<"e","l","a","b","o","r","a","t","e">>, <<"b","r","e","a","k"," ","d","o","w","n">>, <<"i","n"," ","d","e","t","a","i","l">>,
    <<"w","h","a","t"," ","d","o","e","s">>, <<"h","o","w"," ","d","o","e","s">>, <<"w","h","y"," ","d","o","e","s">>, <<"w","h","a","t"," ","i","s">>, <<"d","e","f","i","n","e">>,
    <<"m","e","a","n","i","n","g">>, <<"c","o","n","c","e","p","t">>, <<"e","x","a","m","p","l","e","s">>, <<"i","l","l","u","s","t","r","a","t","e">>>>

isEducationalExplanationRequest(asked) ==
  LET lowerQuestion == toLowerCase(asked)
  IN \E k \in 1..Len(explanationKeywords) : Includes(lowerQuestion, explanationKeywords[k])

stopWords ==
  {<<"w","h","a","t">>, <<"h","o","w">>, <<"w","h","y">>, <<"w","h","e","n">>, <<"w","h","e","r","e">>, <<"w","h","o">>, <<"w","h","i","c","h">>, <<"t","h","a","t">>, <<"t","h","i","s">>,
   <<"i","s">>, <<"a","r","e">>, <<"w","a","s">>, <<"w","e","r","e">>, <<"b","e">>, <<"b","e","e","n">>, <<"b","e","i","n","g">>, <<"h","a","v","e">>, <<"h","a","s">>, <<"h","a","d">>,
   <<"d","o">>, <<"d","o","e","s">>, <<"d","i","d">>, <<"w","i","l","l">>, <<"w","o","u","l","d">>, <<"c","o","u","l","d">>, <<"s","h","o","u","l","d">>, <<"m","a","y">>, <<"m","i","g","h","t">>,
   <<"c","a","n">>, <<"t","h","e">>, <<"a">>, <<"a","n">>, <<"a","n","d">>, <<"o","r">>, <<"b","u","t">>, <<"i","n">>, <<"o","n">>, <<"a","t">>,
   <<"t","o">>, <<"f","o","r">>, <<"o","f">>, <<"w","i","t","h">>, <<"b","y">>, <<"a","b","o","u","t">>, <<"i","n","t","o">>, <<"t","h","r","o","u","g","h">>, <<"d","u","r","i","n","g">>,
   <<"b","e","f","o","r","e">>, <<"a","f","t","e","r">>, <<"a","b","o","v","e">>, <<"b","e","l","o","w">>, <<"u","p">>, <<"d","o","w","n">>, <<"o","u","t">>, <<"o","f","f">>, <<"o","v","e","r">>,
   <<"u","n","d","e","r">>, <<"a","g","a","i","n">>, <<"f","u","r","t","h","e","r">>, <<"t","h","e","n">>, <<"o","n","c","e">>, <<"e","x","p","l","a","i","n">>, <<"s","i","m","p","l","e","r">>, <<"s","i","m","p","l","e">>}

\* question.toLowerCase().replace(/[^\w\s]/g, ' ').split(/\s+/)
\*   .filter(word => word.length > 2 && !stopWords.has(word)).slice(0, 5)
extractKeyTerms(asked) ==
  LET low == toLowerCase(asked)
      blanked == [i \in 1..Len(low) |->
                    IF low[i] \in WordSet \cup SpaceSet THEN low[i] ELSE " "]
      words == SplitOnRuns(blanked, SpaceSet, 1)
  IN Take(SelectSeq(words, LAMBDA w : Len(w) > MinKeyTermLen /\ w \notin stopWords),
          MaxKeyTerms)

\* the paragraphs of a context: split(/\n{2,}/).map(p => p.trim()).filter(longer than minLen)
ParagraphsOf(contextText, minLen) ==
  LET raw == SplitOnRuns(contextText, {"\n"}, 2)
      trimmed == [i \in 1..Len(raw) |-> Trim(raw[i])]
  IN SelectSeq(trimmed, LAMBDA p : Len(p) > minLen)

findRelevantContentByTerms(contextText, keyTerms) ==
  IF Len(keyTerms) = 0 THEN << >>
  ELSE LET paragraphs == ParagraphsOf(contextText, MinKeywordParagraphLen)
           mentions(p) == \E k \in 1..Len(keyTerms) : Includes(toLowerCase(p), keyTerms[k])
       IN Take(SelectSeq(paragraphs, mentions), TopK)

generateEducationalResponse(asked, content, keyTerms) ==
  LET lowerQuestion == toLowerCase(asked)
      opening ==
        IF Includes(lowerQuestion, <<"s","i","m","p","l","e","r">>) \/ Includes(lowerQuestion, <<"s","i","m","p","l","e">>)
        THEN (* "Let me break this down in simpler terms:\n\n" *)
      <<"L","e","t"," ","m","e"," ","b","r","e","a","k"," ","t","h","i","s"," ","d","o","w","n"," ","i",
      "n"," ","s","i","m","p","l","e","r"," ","t","e","r","m","s",":","\n","\n">>
        ELSE IF Includes(lowerQuestion, <<"w","h","a","t"," ","i","s">>) \/ Includes(lowerQuestion, <<"d","e","f","i","n","e">>)
        THEN (* "Here's what I found about this concept:\n\n" *)
      <<"H","e","r","e","'","s"," ","w","h","a","t"," ","I"," ","f","o","u","n","d"," ","a","b","o","u",
      "t"," ","t","h","i","s"," ","c","o","n","c","e","p","t",":","\n","\n">>
        ELSE (* "Based on the content, here's an explanation:\n\n" *)
      <<"B","a","s","e","d"," ","o","n"," ","t","h","e"," ","c","o","n","t","e","n","t",","," ","h","e",
      "r","e","'","s"," ","a","n"," ","e","x","p","l","a","n","a","t","i","o","n",":","\n","\n">>
      aiSummary == Take(Join(content, <<" ">>), EducationalChars)
      sentences == SelectSeq(SplitOnRuns(aiSummary, SentenceEndSet, 1),
                             LAMBDA s : Len(Trim(s)) > MinEducationalSentenceLen)
      shown == Take(sentences, EducationalSentences)
  IN opening
     \o Join([k \in 1..Len(shown) |-> Trim(shown[k])], <<"."," ">>)
     \o (IF Len(sentences) > EducationalSentences THEN <<".",".",".">> ELSE << >>)
     \o <<"\n","\n">>
     \o (IF Len(keyTerms) > 0
         THEN (* "Key concepts mentioned: " *)
      <<"K","e","y"," ","c","o","n","c","e","p","t","s"," ","m","e","n","t","i","o","n","e","d",":"," ">> \o Join(keyTerms, <<","," ">>) \o <<"\n","\n">>
         ELSE << >>)
     \o (* "Would you like me to elaborate on any specific aspect?" *)
      <<"W","o","u","l","d"," ","y","o","u"," ","l","i","k","e"," ","m","e"," ","t","o"," ","e","l","a",
      "b","o","r","a","t","e"," ","o","n"," ","a","n","y"," ","s","p","e","c","i","f","i","c"," ","a",
      "s","p","e","c","t","?">>

\* ${source ? `Currently working with: *${source}*` : 'Please upload ...'}
WorkingWith(source) ==
  IF Len(source) > 0 THEN (* "Currently working with: *" *)
      <<"C","u","r","r","e","n","t","l","y"," ","w","o","r","k","i","n","g"," ","w","i","t","h",":"," ",
      "*">> \o source \o <<"*">>
  ELSE (* "Please upload a PDF or select a chapter to get started." *)
      <<"P","l","e","a","s","e"," ","u","p","l","o","a","d"," ","a"," ","P","D","F"," ","o","r"," ","s",
      "e","l","e","c","t"," ","a"," ","c","h","a","p","t","e","r"," ","t","o"," ","g","e","t"," ","s",
      "t","a","r","t","e","d",".">>

\* the general educational guidance of handleEducationalExplanation
EducationalGuidance(asked, source) ==
  LET lowerQuestion == toLowerCase(asked)
  IN IF Includes(lowerQuestion, <<"s","i","m","p","l","e","r">>) \/ Includes(lowerQuestion, <<"s","i","m","p","l","e">>)
     THEN (* "I'd be happy to explain this in simpler terms! However, I need more specific content" *)
      (* " to work with. \n\nHere are some suggestions:\n<U+2022> Try asking about a specific " *)
      (* "concept or term from the document\n<U+2022> Select a particular chapter that contain" *)
      (* "s the topic you're interested in\n<U+2022> Upload a document that covers the subject" *)
      (* " you want explained\n\n" *)
      <<"I","'","d"," ","b","e"," ","h","a","p","p","y"," ","t","o"," ","e","x","p","l","a","i","n"," ",
      "t","h","i","s"," ","i","n"," ","s","i","m","p","l","e","r"," ","t","e","r","m","s","!"," ","H",
      "o","w","e","v","e","r",","," ","I"," ","n","e","e","d"," ","m","o","r","e"," ","s","p","e","c",
      "i","f","i","c"," ","c","o","n","t","e","n","t"," ","t","o"," ","w","o","r","k"," ","w","i","t",
      "h","."," ","\n","\n","H","e","r","e"," ","a","r","e"," ","s","o","m","e"," ","s","u","g","g",
      "e","s","t","i","o","n","s",":","\n","<U+2022>"," ","T","r","y"," ","a","s","k","i","n","g"," ",
      "a","b","o","u","t"," ","a"," ","s","p","e","c","i","f","i","c"," ","c","o","n","c","e","p","t",
      " ","o","r"," ","t","e","r","m"," ","f","r","o","m"," ","t","h","e"," ","d","o","c","u","m","e",
      "n","t","\n","<U+2022>"," ","S","e","l","e","c","t"," ","a"," ","p","a","r","t","i","c","u","l",
      "a","r"," ","c","h","a","p","t","e","r"," ","t","h","a","t"," ","c","o","n","t","a","i","n","s",
      " ","t","h","e"," ","t","o","p","i","c"," ","y","o","u","'","r","e"," ","i","n","t","e","r","e",
      "s","t","e","d"," ","i","n","\n","<U+2022>"," ","U","p","l","o","a","d"," ","a"," ","d","o","c",
      "u","m","e","n","t"," ","t","h","a","t"," ","c","o","v","e","r","s"," ","t","h","e"," ","s","u",
      "b","j","e","c","t"," ","y","o","u"," ","w","a","n","t"," ","e","x","p","l","a","i","n","e","d",
      "\n","\n">>
          \o WorkingWith(source)
          \o (* "\n\nWhat specific topic would you like me to explain?" *)
      <<"\n","\n","W","h","a","t"," ","s","p","e","c","i","f","i","c"," ","t","o","p","i","c"," ","w",
      "o","u","l","d"," ","y","o","u"," ","l","i","k","e"," ","m","e"," ","t","o"," ","e","x","p","l",
      "a","i","n","?">>
     ELSE IF Includes(lowerQuestion, <<"w","h","a","t"," ","i","s">>) \/ Includes(lowerQuestion, <<"d","e","f","i","n","e">>)
     THEN (* "I can help define concepts for you! To provide an accurate definition, I need to ref" *)
      (* "erence the relevant content from your documents.\n\nPlease try:\n<U+2022> Asking abo" *)
      (* "ut terms that appear in the selected chapter\n<U+2022> Uploading a document that con" *)
      (* "tains the concept you want defined\n<U+2022> Being more specific about which subject" *)
      (* " area you're exploring\n\n" *)
      <<"I"," ","c","a","n"," ","h","e","l","p"," ","d","e","f","i","n","e"," ","c","o","n","c","e","p",
      "t","s"," ","f","o","r"," ","y","o","u","!"," ","T","o"," ","p","r","o","v","i","d","e"," ","a",
      "n"," ","a","c","c","u","r","a","t","e"," ","d","e","f","i","n","i","t","i","o","n",","," ","I",
      " ","n","e","e","d"," ","t","o"," ","r","e","f","e","r","e","n","c","e"," ","t","h","e"," ","r",
      "e","l","e","v","a","n","t"," ","c","o","n","t","e","n","t"," ","f","r","o","m"," ","y","o","u",
      "r"," ","d","o","c","u","m","e","n","t","s",".","\n","\n","P","l","e","a","s","e"," ","t","r",
      "y",":","\n","<U+2022>"," ","A","s","k","i","n","g"," ","a","b","o","u","t"," ","t","e","r","m",
      "s"," ","t","h","a","t"," ","a","p","p","e","a","r"," ","i","n"," ","t","h","e"," ","s","e","l",
      "e","c","t","e","d"," ","c","h","a","p","t","e","r","\n","<U+2022>"," ","U","p","l","o","a","d",
      "i","n","g"," ","a"," ","d","o","c","u","m","e","n","t"," ","t","h","a","t"," ","c","o","n","t",
      "a","i","n","s"," ","t","h","e"," ","c","o","n","c","e","p","t"," ","y","o","u"," ","w","a","n",
      "t"," ","d","e","f","i","n","e","d","\n","<U+2022>"," ","B","e","i","n","g"," ","m","o","r","e",
      " ","s","p","e","c","i","f","i","c"," ","a","b","o","u","t"," ","w","h","i","c","h"," ","s","u",
      "b","j","e","c","t"," ","a","r","e","a"," ","y","o","u","'","r","e"," ","e","x","p","l","o","r",
      "i","n","g","\n","\n">>
          \o WorkingWith(source)
          \o (* "\n\nWhat term or concept would you like me to define?" *)
      <<"\n","\n","W","h","a","t"," ","t","e","r","m"," ","o","r"," ","c","o","n","c","e","p","t"," ",
      "w","o","u","l","d"," ","y","o","u"," ","l","i","k","e"," ","m","e"," ","t","o"," ","d","e","f",
      "i","n","e","?">>
     ELSE (* "I understand you're looking for an educational explanation. I'm designed to help exp" *)
      (* "lain concepts from your uploaded documents in a clear, accessible way.\n\nTo provide" *)
      (* " the best explanation:\n<U+2022> Make sure you have content selected from a chapter " *)
      (* "or document\n<U+2022> Ask about specific topics that appear in your materials\n<U+20" *)
      (* "22> I can break down complex concepts into simpler terms\n\n" *)
      <<"I"," ","u","n","d","e","r","s","t","a","n","d"," ","y","o","u","'","r","e"," ","l","o","o","k",
      "i","n","g"," ","f","o","r"," ","a","n"," ","e","d","u","c","a","t","i","o","n","a","l"," ","e",
      "x","p","l","a","n","a","t","i","o","n","."," ","I","'","m"," ","d","e","s","i","g","n","e","d",
      " ","t","o"," ","h","e","l","p"," ","e","x","p","l","a","i","n"," ","c","o","n","c","e","p","t",
      "s"," ","f","r","o","m"," ","y","o","u","r"," ","u","p","l","o","a","d","e","d"," ","d","o","c",
      "u","m","e","n","t","s"," ","i","n"," ","a"," ","c","l","e","a","r",","," ","a","c","c","e","s",
      "s","i","b","l","e"," ","w","a","y",".","\n","\n","T","o"," ","p","r","o","v","i","d","e"," ",
      "t","h","e"," ","b","e","s","t"," ","e","x","p","l","a","n","a","t","i","o","n",":","\n",
      "<U+2022>"," ","M","a","k","e"," ","s","u","r","e"," ","y","o","u"," ","h","a","v","e"," ","c",
      "o","n","t","e","n","t"," ","s","e","l","e","c","t","e","d"," ","f","r","o","m"," ","a"," ","c",
      "h","a","p","t","e","r"," ","o","r"," ","d","o","c","u","m","e","n","t","\n","<U+2022>"," ","A",
      "s","k"," ","a","b","o","u","t"," ","s","p","e","c","i","f","i","c"," ","t","o","p","i","c","s",
      " ","t","h","a","t"," ","a","p","p","e","a","r"," ","i","n"," ","y","o","u","r"," ","m","a","t",
      "e","r","i","a","l","s","\n","<U+2022>"," ","I"," ","c","a","n"," ","b","r","e","a","k"," ","d",
      "o","w","n"," ","c","o","m","p","l","e","x"," ","c","o","n","c","e","p","t","s"," ","i","n","t",
      "o"," ","s","i","m","p","l","e","r"," ","t","e","r","m","s","\n","\n">>
          \o WorkingWith(source)
          \o (* "\n\nWhat would you like me to help explain?" *)
      <<"\n","\n","W","h","a","t"," ","w","o","u","l","d"," ","y","o","u"," ","l","i","k","e"," ","m",
      "e"," ","t","o"," ","h","e","l","p"," ","e","x","p","l","a","i","n","?">>

\* An answer is the returned text, the kind of answer it is, and the
\* retrieval steps that were attempted on the way ("keyword": the call of
\* findRelevantContentByTerms, "tfidf": the call of tfidfParagraphs).
Answer(text, kind, steps) == [text |-> text, kind |-> kind, steps |-> steps]

handleEducationalExplanation(asked, contextText, sectionList, activeSection, steps) ==
  LET keyTerms == extractKeyTerms(asked)
      relevantContent == findRelevantContentByTerms(contextText, keyTerms)
  IN IF Len(relevantContent) > 0
     THEN Answer(generateEducationalResponse(asked, relevantContent, keyTerms),
                 "educationalResponse", Append(steps, "keyword"))
     ELSE Answer(EducationalGuidance(asked, getSourceInfo(sectionList, activeSection)),
                 "educationalGuidance", Append(steps, "keyword"))

generateEnhancedFallback(asked, contextText, sectionList, activeSection, steps) ==
  IF isEducationalExplanationRequest(asked)
  THEN handleEducationalExplanation(asked, contextText, sectionList, activeSection, steps)
  ELSE Answer((* "I couldn't find specific information directly addressing your question in the curren" *)
      (* "t content. \n\nHere are some suggestions:\n<U+2022> Try rephrasing your question wit" *)
      (* "h different keywords\n<U+2022> Check if you've selected the most relevant chapter or" *)
      (* " section\n<U+2022> Ask about topics that are explicitly mentioned in the document\n" *)
      (* "\n" *)
      <<"I"," ","c","o","u","l","d","n","'","t"," ","f","i","n","d"," ","s","p","e","c","i","f","i","c",
      " ","i","n","f","o","r","m","a","t","i","o","n"," ","d","i","r","e","c","t","l","y"," ","a","d",
      "d","r","e","s","s","i","n","g"," ","y","o","u","r"," ","q","u","e","s","t","i","o","n"," ","i",
      "n"," ","t","h","e"," ","c","u","r","r","e","n","t"," ","c","o","n","t","e","n","t","."," ","\n",
      "\n","H","e","r","e"," ","a","r","e"," ","s","o","m","e"," ","s","u","g","g","e","s","t","i","o",
      "n","s",":","\n","<U+2022>"," ","T","r","y"," ","r","e","p","h","r","a","s","i","n","g"," ","y",
      "o","u","r"," ","q","u","e","s","t","i","o","n"," ","w","i","t","h"," ","d","i","f","f","e","r",
      "e","n","t"," ","k","e","y","w","o","r","d","s","\n","<U+2022>"," ","C","h","e","c","k"," ","i",
      "f"," ","y","o","u","'","v","e"," ","s","e","l","e","c","t","e","d"," ","t","h","e"," ","m","o",
      "s","t"," ","r","e","l","e","v","a","n","t"," ","c","h","a","p","t","e","r"," ","o","r"," ","s",
      "e","c","t","i","o","n","\n","<U+2022>"," ","A","s","k"," ","a","b","o","u","t"," ","t","o","p",
      "i","c","s"," ","t","h","a","t"," ","a","r","e"," ","e","x","p","l","i","c","i","t","l","y"," ",
      "m","e","n","t","i","o","n","e","d"," ","i","n"," ","t","h","e"," ","d","o","c","u","m","e","n",
      "t","\n","\n">>
              \o WorkingWith(getSourceInfo(sectionList, activeSection))
              \o (* "\n\nWhat specific aspect would you like to explore?" *)
      <<"\n","\n","W","h","a","t"," ","s","p","e","c","i","f","i","c"," ","a","s","p","e","c","t"," ",
      "w","o","u","l","d"," ","y","o","u"," ","l","i","k","e"," ","t","o"," ","e","x","p","l","o","r",
      "e","?">>,
              "genericFallback", steps)

generateIntroPhrase(asked) ==
  LET q == toLowerCase(asked)
  IN IF Includes(q, <<"w","h","a","t">>) \/ Includes(q, <<"e","x","p","l","a","i","n">>) THEN << >>
     ELSE IF Includes(q, <<"h","o","w">>) THEN (* "According to the content, " *)
      <<"A","c","c","o","r","d","i","n","g"," ","t","o"," ","t","h","e"," ","c","o","n","t","e","n","t",
      ","," ">>
     ELSE IF Includes(q, <<"w","h","y">>) THEN (* "The document suggests that " *)
      <<"T","h","e"," ","d","o","c","u","m","e","n","t"," ","s","u","g","g","e","s","t","s"," ","t","h",
      "a","t"," ">>
     ELSE IF Includes(q, <<"w","h","e","n">>) \/ Includes(q, <<"w","h","e","r","e">>) THEN (* "Based on the information, " *)
      <<"B","a","s","e","d"," ","o","n"," ","t","h","e"," ","i","n","f","o","r","m","a","t","i","o","n",
      ","," ">>
     ELSE IF Includes(q, <<"w","h","o">>) THEN (* "The text indicates that " *)
      <<"T","h","e"," ","t","e","x","t"," ","i","n","d","i","c","a","t","e","s"," ","t","h","a","t"," ">>
     ELSE << >>

generateNaturalAnswer(asked, paragraphs) ==
  LET combinedText == Take(Join(paragraphs, <<" ">>), AnswerChars)
      sentences == Take(SelectSeq(SplitSentences(combinedText),
                                  LAMBDA s : Len(s) > MinAnswerSentenceLen),
                        AnswerSentences)
  IN IF Len(sentences) = 0
     THEN (* "I found some related content, but it's difficult to extract a clear answer to your s" *)
      (* "pecific question." *)
      <<"I"," ","f","o","u","n","d"," ","s","o","m","e"," ","r","e","l","a","t","e","d"," ","c","o","n",
      "t","e","n","t",","," ","b","u","t"," ","i","t","'","s"," ","d","i","f","f","i","c","u","l","t",
      " ","t","o"," ","e","x","t","r","a","c","t"," ","a"," ","c","l","e","a","r"," ","a","n","s","w",
      "e","r"," ","t","o"," ","y","o","u","r"," ","s","p","e","c","i","f","i","c"," ","q","u","e","s",
      "t","i","o","n",".">>
     ELSE generateIntroPhrase(asked) \o Trim(CollapseAllSpace(Join(sentences, <<" ">>)))

\* the paragraph indices in ranking order: descending score, ties in input
\* order (Array.prototype.sort is stable)
RankedIndices(scores) ==
  LET n == Len(scores)
      rank(i) == Cardinality({j \in 1..n : \/ ScoreGreater(scores[j], scores[i])
                                           \/ (j < i /\ ~ScoreGreater(scores[i], scores[j]))})
  IN [r \in 1..n |-> CHOOSE i \in 1..n : rank(i) = r - 1]

\* a faulty floor: s.score > 0
AboveZero(sc) == DoubleLess(DoubleZero, sc)

\* whether a ranked paragraph is relevant: s.score > 0.1
AboveFloor(sc) == DoubleLess(RelevanceFloor, sc)

\* the elements of s at the indices of pick, in the order of pick
ElementsAt(s, pick) == [k \in 1..Len(pick) |-> s[pick[k]]]

\* scored.sort((a, b) => b.score - a.score).slice(0, 3).filter(s => s.score > 0.1)
KeptIndices(scores) ==
  SelectSeq(Take(RankedIndices(scores), TopK), LAMBDA i : AboveFloor(scores[i]))

\* paragraphs.map((p, i) => ({ p, score: cosine(qvec, vectors[i]) }))
ScoresAgainst(qvec, vectors) ==
  [i \in 1..Len(vectors) |-> cosine(qvec, vectors[i])] \o << >>

ParagraphScores(asked, tfidf, N) ==
  ScoresAgainst(vectorizeQuery(asked, tfidf.vocabulary, N), tfidf.vectors)

\* the paragraphs generateRuleBasedAnswer passes on to the answer
relevantParagraphs(asked, paras) ==
  ElementsAt(paras, KeptIndices(ParagraphScores(asked, tfidfParagraphs(paras), Len(paras))))

\* a faulty message: the empty string
NoMessage == << >>

InsufficientContent ==
  (* "I don't have enough content to answer your question. Please make sure you've selecte" *)
      (* "d a chapter with substantial content." *)
      <<"I"," ","d","o","n","'","t"," ","h","a","v","e"," ","e","n","o","u","g","h"," ","c","o","n","t",
      "e","n","t"," ","t","o"," ","a","n","s","w","e","r"," ","y","o","u","r"," ","q","u","e","s","t",
      "i","o","n","."," ","P","l","e","a","s","e"," ","m","a","k","e"," ","s","u","r","e"," ","y","o",
      "u","'","v","e"," ","s","e","l","e","c","t","e","d"," ","a"," ","c","h","a","p","t","e","r"," ",
      "w","i","t","h"," ","s","u","b","s","t","a","n","t","i","a","l"," ","c","o","n","t","e","n","t",
      ".">>

NoContentAvailable ==
  (* "No content available. Please upload a PDF or select a chapter." *)
      <<"N","o"," ","c","o","n","t","e","n","t"," ","a","v","a","i","l","a","b","l","e","."," ","P","l",
      "e","a","s","e"," ","u","p","l","o","a","d"," ","a"," ","P","D","F"," ","o","r"," ","s","e","l",
      "e","c","t"," ","a"," ","c","h","a","p","t","e","r",".">>

generateRuleBasedAnswer(asked, cleanContext, sectionList, activeSection) ==
  IF isEducationalExplanationRequest(asked)
  THEN handleEducationalExplanation(asked, cleanContext, sectionList, activeSection, << >>)
  ELSE LET paras == ParagraphsOf(cleanContext, MinParagraphLen)
       IN IF Len(paras) = 0
          THEN Answer(InsufficientContent, "insufficient", << >>)
          ELSE LET relevant == relevantParagraphs(asked, paras)
               IN IF Len(relevant) = 0
                  THEN generateEnhancedFallback(asked, cleanContext, sectionList,
                                                activeSection, <<"tfidf">>)
                  ELSE Answer(generateNaturalAnswer(asked, relevant)
                                \o CitationLine(getSourceInfo(sectionList, activeSection)),
                              "ranked", <<"tfidf">>)

\* demoAnswer's early return: !context || context.trim().length === 0
ContextIsBlank(contextText) == Len(Trim(contextText)) = 0

\* the answer of the AI responder, cited
AIAnswer(response, sectionList, activeSection) ==
  Answer(response \o CitationLine(getSourceInfo(sectionList, activeSection)), "ai", << >>)

(***************************************************************************)
(* summarize: generateExtractiveSummary and the cleaning of an AI summary. *)
(***************************************************************************)
\* sentences.length <= 3 returns the text trimmed
MaxUnsummarized == 3
\* Math.min(6, Math.ceil(sentences.length * 0.25))
MaxSummarySentences == 6
SummaryDivisor == 4

\* the sentences of a text: split(/(?<=[.!?])\s+/).filter(s => s.trim().length > 0)
SentencesOf(text) ==
  SelectSeq(SplitSentences(text), LAMBDA s : Len(Trim(s)) > 0)

\* let sc = 0; for (const w of st) sc += 1 / (freq.get(w) || 1), from token
\* k on, sc the sum so far
RECURSIVE ScoreFrom(_, _, _, _)
ScoreFrom(st, k, freq, sc) ==
  IF IsNaN(sc) \/ k > Len(st) THEN sc
  ELSE ScoreFrom(st, k + 1, freq,
                 DoublePlus(sc, DoubleDivide(One, FromInt(IF st[k] \in DOMAIN freq
                                                          THEN freq[st[k]] ELSE 1))))

ScoreOfTokens(st, freq) == ScoreFrom(st, 1, freq, DoubleZero)

\* the scores of the sentences, the sum of 1 / freq over the tokens of each
SentenceScores(text, sentences) ==
  LET toks == tokenize(text)
      freq == [t \in TermSet(toks) |-> Count(toks, t)]
  IN [i \in 1..Len(sentences) |->
        LET st == tokenize(sentences[i]) IN ScoreOfTokens(st, freq)] \o << >>

\* how many sentences scores.sort((a, b) => b.sc - a.sc) puts before sentence
\* i: those of a higher score and, the sort being stable, the earlier ones
\* of the same score
SentenceRank(sc, i) ==
  Cardinality({j \in 1..Len(sc) : DoubleLess(sc[i], sc[j]) \/ (j < i /\ sc[j] = sc[i])})

\* a faulty pick: the picked sentences stay in descending order of score
TopByScore(sc, k) == [r \in 1..k |-> CHOOSE i \in 1..Len(sc) : SentenceRank(sc, i) = r - 1]

PickedSentencesByScore(text, sentences) ==
  TopByScore(SentenceScores(text, sentences),
             Min2(MaxSummarySentences,
                  (Len(sentences) + SummaryDivisor - 1) \div SummaryDivisor))

\* the indices of the k sentences of the highest scores, in text order
TopInTextOrder(sc, k) ==
  SelectSeq([i \in 1..Len(sc) |-> i], LAMBDA i : SentenceRank(sc, i) < k)

\* a faulty pick: Math.floor instead of Math.ceil
PickedSentencesFloor(text, sentences) ==
  TopInTextOrder(SentenceScores(text, sentences),
                 Min2(MaxSummarySentences, Len(sentences) \div SummaryDivisor))

\* the indices of the picked sentences, in text order
PickedSentences(text, sentences) ==
  TopInTextOrder(SentenceScores(text, sentences),
                 Min2(MaxSummarySentences,
                      (Len(sentences) + SummaryDivisor - 1) \div SummaryDivisor))

\* top.sort((a, b) => a.i - b.i).map(x => x.s).join(' ')
JoinPicked(text, sentences) ==
  Join(ElementsAt(sentences, PickedSentences(text, sentences)), <<" ">>)

\* a faulty summary: texts of exactly three sentences are summarized too
SummaryBelowThree(text, sentences) ==
  IF Len(sentences) < MaxUnsummarized THEN Trim(text) ELSE JoinPicked(text, sentences)

generateExtractiveSummaryBelowThree(text) == SummaryBelowThree(text, SentencesOf(text))

SummaryOf(text, sentences) ==
  IF Len(sentences) <= MaxUnsummarized THEN Trim(text) ELSE JoinPicked(text, sentences)

generateExtractiveSummary(text) == SummaryOf(text, SentencesOf(text))

SummaryPrefixes == <<<<"s","u","m","m","a","r","y",":">>, (* "here's a summary:" *)
      <<"h","e","r","e","'","s"," ","a"," ","s","u","m","m","a","r","y",":">>, (* "here is a summary:" *)
      <<"h","e","r","e"," ","i","s"," ","a"," ","s","u","m","m","a","r","y",":">>>>

\* summary.trim().replace(/^(Summary:|Here's a summary:|Here is a summary:)/i, '').trim()
CleanAISummary(aiSummary) ==
  LET t == Trim(aiSummary)
      hit == {k \in 1..Len(SummaryPrefixes) : StartsWithAt(IgnoreCase(t), 1, SummaryPrefixes[k])}
  IN IF hit = {} THEN t
     ELSE Trim(SubSeq(t, Len(SummaryPrefixes[SetMin(hit)]) + 1, Len(t)))

(***************************************************************************)
(* The state of the program.                                               *)
(***************************************************************************)
VARIABLES
  rawPages,       \* the page texts last given to splitChapters
  sections,       \* the Section list of the store
  usedFallback,   \* whether the last splitChapters took the fixed windows
  useGemini,      \* store.ui.useGemini
  geminiApiKey,   \* store.ui.geminiApiKey
  geminiService,  \* whether the module's geminiService holds an instance
  awaiting,       \* the calls of demoAnswer and summarizeDemo that are at their
                  \* await, in the order they were made, each with its arguments
  op,             \* the call at hand, which took the last step: its function,
  pc,             \* "awaitAI" (it is at its await), "done" (it has settled) or
                  \* "idle" (its caller took the result; no call is at hand)
  aiService,      \* whether getGeminiAIService() gave it a service
  question,       \* the arguments of demoAnswer
  context,
  activeId,
  sumText,        \* the argument of summarizeDemo
  answer,         \* what demoAnswer returned
  summary,        \* what summarizeDemo returned
  aiFailed,       \* whether its AI call was rejected
  outcome,        \* "pending", "returned" or "threw"
  args,           \* the arguments of a call of a function of the library
  result,         \* what that call returned
  lemongrassService, \* whether the module's lemongrassService holds an instance
  podcasts,       \* the calls of generatePodcast, in the order they were made:
                  \* each with its arguments, its locals and how far it is
  ttsManager,     \* the EnhancedTTSManager: its state (TTSState), script,
                  \* pausedTime, segmentStartTime and updateInterval
  speechSynthesis, \* the browser's queue of utterances, whether it is paused,
                  \* and the utterances a cancel() removed, whose event may
                  \* still be delivered
  timers,         \* the pending timers of onend, each with its segment
  voices,         \* what speechSynthesis.getVoices() returns
  now,            \* Date.now(), in milliseconds
  ttsPc,          \* playScript: "idle" or "awaitVoices"
  controls,       \* whether a call of playScript has returned its TTSControls
  spoken,         \* the indices of the segments given to speechSynthesis.speak
  stopped,        \* << >>, or <<Len(spoken)>> as it was when stop() returned
                  \* and no method of the manager was called since
  threw           \* whether the last handler ended with a TypeError

vars == <<rawPages, sections, usedFallback, useGemini, geminiApiKey, geminiService,
          awaiting, op, pc, aiService, question, context, activeId, sumText, answer,
          summary, aiFailed, outcome, args, result,
          lemongrassService, podcasts,
          ttsManager, speechSynthesis, timers, voices, now, ttsPc, controls, spoken,
          stopped, threw>>

storeVars == <<useGemini, geminiApiKey>>
splitVars == <<rawPages, usedFallback>>
callVars == <<awaiting, op, pc, aiService, question, context, activeId, sumText, answer,
              summary, aiFailed, outcome>>

pureVars == <<args, result>>
podcastVars == <<lemongrassService, podcasts>>
managerVars == <<ttsManager, speechSynthesis, timers, voices, now, ttsPc, controls,
                 spoken, stopped, threw>>
speechVars == <<podcastVars, managerVars>>
\* the part of the store the speech does not touch
restVars == <<pureVars, splitVars, sections, storeVars, geminiService, callVars>>

NoAnswer == Answer(<< >>, "none", << >>)
NoArgs == [fn |-> "none"]
NoResult == << >>

(***************************************************************************)
(* The inputs.                                                             *)
(***************************************************************************)
\* the documents have at most MaxPages pages of ordinary text, or at most
\* MaxLongPages pages that hold next to nothing
MaxPages == 2
MaxLongPages == 9

SourceId == "source-1"

Body == (* "Long paragraph A of the text continues here with plenty of words to read." *)
      <<"L","o","n","g"," ","p","a","r","a","g","r","a","p","h"," ","A"," ","o","f"," ","t","h","e"," ",
      "t","e","x","t"," ","c","o","n","t","i","n","u","e","s"," ","h","e","r","e"," ","w","i","t","h",
      " ","p","l","e","n","t","y"," ","o","f"," ","w","o","r","d","s"," ","t","o"," ","r","e","a","d",
      ".">>
PageChapter == (* "Chapter 1: Origins\n" *)
      <<"C","h","a","p","t","e","r"," ","1",":"," ","O","r","i","g","i","n","s","\n">> \o Body
PageMore == <<"M","o","r","e"," ","t","e","x","t",".",".",".">>
PageEmpty == << >>
\* a page whose text starts with a line break, then a chapter line
PageBlankThenChapter == (* "\nChapter 2: Growth of the seedling\n" *)
      <<"\n","C","h","a","p","t","e","r"," ","2",":"," ","G","r","o","w","t","h"," ","o","f"," ","t","h",
      "e"," ","s","e","e","d","l","i","n","g","\n">> \o Body
\* a short section under a heading
PageShortHeading == (* "\nIntroduction\nToo short to keep." *)
      <<"\n","I","n","t","r","o","d","u","c","t","i","o","n","\n","T","o","o"," ","s","h","o","r","t",
      " ","t","o"," ","k","e","e","p",".">>
PageTwoBlocks ==
  (* "Plants are growing in sunny gardens and they need water and light every day.\n\nSUMM" *)
      (* "ARY OF THE CHAPTER\nThe hyphen-\nated words of the closing paragraph are joined , an" *)
      (* "d kept." *)
      <<"P","l","a","n","t","s"," ","a","r","e"," ","g","r","o","w","i","n","g"," ","i","n"," ","s","u",
      "n","n","y"," ","g","a","r","d","e","n","s"," ","a","n","d"," ","t","h","e","y"," ","n","e","e",
      "d"," ","w","a","t","e","r"," ","a","n","d"," ","l","i","g","h","t"," ","e","v","e","r","y"," ",
      "d","a","y",".","\n","\n","S","U","M","M","A","R","Y"," ","O","F"," ","T","H","E"," ","C","H",
      "A","P","T","E","R","\n","T","h","e"," ","h","y","p","h","e","n","-","\n","a","t","e","d"," ",
      "w","o","r","d","s"," ","o","f"," ","t","h","e"," ","c","l","o","s","i","n","g"," ","p","a","r",
      "a","g","r","a","p","h"," ","a","r","e"," ","j","o","i","n","e","d"," ",","," ","a","n","d"," ",
      "k","e","p","t",".">>
PageHeadingOnly == <<"\n","S","u","m","m","a","r","y">>
\* a page whose own text quotes a page marker, under a heading
PageQuotesMarker ==
  (* "\nSummary\nThe notes on [[PAGE:5]] explain how the seedling grows toward the light." *)
      <<"\n","S","u","m","m","a","r","y","\n","T","h","e"," ","n","o","t","e","s"," ","o","n"," ","[",
      "[","P","A","G","E",":","5","]","]"," ","e","x","p","l","a","i","n"," ","h","o","w"," ","t","h",
      "e"," ","s","e","e","d","l","i","n","g"," ","g","r","o","w","s"," ","t","o","w","a","r","d"," ",
      "t","h","e"," ","l","i","g","h","t",".">>

PageTexts ==
  {PageChapter, PageMore, PageEmpty, PageBlankThenChapter, PageShortHeading,
   PageTwoBlocks, Body, PageQuotesMarker}
TinyPages == {PageEmpty, PageHeadingOnly}

Documents ==
  UNION {[1..n -> PageTexts] : n \in 1..MaxPages}
  \cup {[i \in 1..n |-> IF i = k THEN a ELSE b] :
          n \in 1..MaxLongPages, k \in 0..MaxLongPages, a \in TinyPages, b \in TinyPages}

\* the document of the sections the composer is asked about
SampleDocument == <<PageTwoBlocks, PageMore>>
SectionLists == {<< >>, splitChapters(SampleDocument, SourceId)}

\* the sections of SampleDocument, written out
SampleTextOne ==
  (* "[[PAGE:1]]\nPlants are growing in sunny gardens and they need water and light every " *)
      (* "day." *)
      <<"[","[","P","A","G","E",":","1","]","]","\n","P","l","a","n","t","s"," ","a","r","e"," ","g","r",
      "o","w","i","n","g"," ","i","n"," ","s","u","n","n","y"," ","g","a","r","d","e","n","s"," ","a",
      "n","d"," ","t","h","e","y"," ","n","e","e","d"," ","w","a","t","e","r"," ","a","n","d"," ","l",
      "i","g","h","t"," ","e","v","e","r","y"," ","d","a","y",".">>
SampleTextTwo ==
  (* "SUMMARY OF THE CHAPTER\nThe hyphenated words of the closing paragraph are joined, an" *)
      (* "d kept. [[PAGE:2]]\nMore text..." *)
      <<"S","U","M","M","A","R","Y"," ","O","F"," ","T","H","E"," ","C","H","A","P","T","E","R","\n","T",
      "h","e"," ","h","y","p","h","e","n","a","t","e","d"," ","w","o","r","d","s"," ","o","f"," ","t",
      "h","e"," ","c","l","o","s","i","n","g"," ","p","a","r","a","g","r","a","p","h"," ","a","r","e",
      " ","j","o","i","n","e","d",","," ","a","n","d"," ","k","e","p","t","."," ","[","[","P","A","G",
      "E",":","2","]","]","\n","M","o","r","e"," ","t","e","x","t",".",".",".">>
SampleSections ==
  <<[id |-> 1, sourceId |-> SourceId, title |-> <<"S","e","c","t","i","o","n"," ","1">>, text |-> SampleTextOne,
     startPage |-> SomePage(1), endPage |-> NoPage, tokensEstimated |-> 22],
    [id |-> 2, sourceId |-> SourceId, title |-> (* "SUMMARY OF THE CHAPTER" *)
      <<"S","U","M","M","A","R","Y"," ","O","F"," ","T","H","E"," ","C","H","A","P","T","E","R">>,
     text |-> SampleTextTwo, startPage |-> NoPage, endPage |-> SomePage(2),
     tokensEstimated |-> 29]>>

ContextDefinition ==
  (* "[[PAGE:1]]\nPhotosynthesis is the process by which green plants make their food from" *)
      (* " light. It takes place in the chloro-\nplasts of the leaf cells.\n\nPlants need wate" *)
      (* "r , light and air to grow." *)
      <<"[","[","P","A","G","E",":","1","]","]","\n","P","h","o","t","o","s","y","n","t","h","e","s","i",
      "s"," ","i","s"," ","t","h","e"," ","p","r","o","c","e","s","s"," ","b","y"," ","w","h","i","c",
      "h"," ","g","r","e","e","n"," ","p","l","a","n","t","s"," ","m","a","k","e"," ","t","h","e","i",
      "r"," ","f","o","o","d"," ","f","r","o","m"," ","l","i","g","h","t","."," ","I","t"," ","t","a",
      "k","e","s"," ","p","l","a","c","e"," ","i","n"," ","t","h","e"," ","c","h","l","o","r","o","-",
      "\n","p","l","a","s","t","s"," ","o","f"," ","t","h","e"," ","l","e","a","f"," ","c","e","l","l",
      "s",".","\n","\n","P","l","a","n","t","s"," ","n","e","e","d"," ","w","a","t","e","r"," ",",",
      " ","l","i","g","h","t"," ","a","n","d"," ","a","i","r"," ","t","o"," ","g","r","o","w",".">>
ContextShort == (* "Photosynthesis feeds every green plant." *)
      <<"P","h","o","t","o","s","y","n","t","h","e","s","i","s"," ","f","e","e","d","s"," ","e","v","e",
      "r","y"," ","g","r","e","e","n"," ","p","l","a","n","t",".">>
ContextPlants ==
  (* "Plants are growing in sunny gardens and they need water and light every day." *)
      <<"P","l","a","n","t","s"," ","a","r","e"," ","g","r","o","w","i","n","g"," ","i","n"," ","s","u",
      "n","n","y"," ","g","a","r","d","e","n","s"," ","a","n","d"," ","t","h","e","y"," ","n","e","e",
      "d"," ","w","a","t","e","r"," ","a","n","d"," ","l","i","g","h","t"," ","e","v","e","r","y"," ",
      "d","a","y",".">>
ContextChoppy == (* "Plants grow. Plants eat. Plants rest. Plants live. Plants die." *)
      <<"P","l","a","n","t","s"," ","g","r","o","w","."," ","P","l","a","n","t","s"," ","e","a","t",".",
      " ","P","l","a","n","t","s"," ","r","e","s","t","."," ","P","l","a","n","t","s"," ","l","i","v",
      "e","."," ","P","l","a","n","t","s"," ","d","i","e",".">>
ContextMarkerOnly == <<"[","[","P","A","G","E",":","1","]","]","\n">>
ContextBlank == <<" "," ","\n"," ">>

FixedContexts ==
  {<< >>, ContextBlank, ContextMarkerOnly, ContextShort, ContextDefinition,
   ContextPlants, ContextChoppy}

Questions ==
  {(* "What is photosynthesis?" *)
      <<"W","h","a","t"," ","i","s"," ","p","h","o","t","o","s","y","n","t","h","e","s","i","s","?">>, (* "Where does a plant grow?" *)
      <<"W","h","e","r","e"," ","d","o","e","s"," ","a"," ","p","l","a","n","t"," ","g","r","o","w","?">>, (* "How do plants make food" *)
      <<"H","o","w"," ","d","o"," ","p","l","a","n","t","s"," ","m","a","k","e"," ","f","o","o","d">>,
   <<"z","e","b","r","a">>, (* "Explain it in simpler terms" *)
      <<"E","x","p","l","a","i","n"," ","i","t"," ","i","n"," ","s","i","m","p","l","e","r"," ","t","e",
      "r","m","s">>, <<"p","l","a","n","t","s">>}

\* ChatPane.ask: the context of scope 'current' and of scope 'all'
ScopeContext(scope, secs, aid) ==
  IF scope = "current"
  THEN LET hit == {i \in 1..Len(secs) : aid = <<secs[i].id>>}
       IN IF hit = {} THEN << >> ELSE secs[SetMin(hit)].text
  ELSE Join([i \in 1..Len(secs) |-> secs[i].text], <<"\n","\n">>)

ActiveIds == {NoId, <<2>>}
ApiKeys == {<< >>, <<" ">>, <<"k","e","y">>}
AIResponses == {(* "Plants make food from light." *)
      <<"P","l","a","n","t","s"," ","m","a","k","e"," ","f","o","o","d"," ","f","r","o","m"," ","l","i",
      "g","h","t",".">>, (* " Summary: Plants grow. " *)
      <<" ","S","u","m","m","a","r","y",":"," ","P","l","a","n","t","s"," ","g","r","o","w","."," ">>}
\* the calls that are made while another call is at its await
OverlappingAsks == {<<<<"p","l","a","n","t","s">>, ContextPlants, NoId>>}
OverlappingTexts == {ContextShort}
SummaryTexts ==
  {ContextChoppy, ContextShort,
   (* "Plants make food. The leaf is green. Water rises in the stem. Roots hold the soil! I" *)
      (* "s light needed? Light is needed. Seeds travel far. Bees visit the flowers. The end." *)
      <<"P","l","a","n","t","s"," ","m","a","k","e"," ","f","o","o","d","."," ","T","h","e"," ","l","e",
      "a","f"," ","i","s"," ","g","r","e","e","n","."," ","W","a","t","e","r"," ","r","i","s","e","s",
      " ","i","n"," ","t","h","e"," ","s","t","e","m","."," ","R","o","o","t","s"," ","h","o","l","d",
      " ","t","h","e"," ","s","o","i","l","!"," ","I","s"," ","l","i","g","h","t"," ","n","e","e","d",
      "e","d","?"," ","L","i","g","h","t"," ","i","s"," ","n","e","e","d","e","d","."," ","S","e","e",
      "d","s"," ","t","r","a","v","e","l"," ","f","a","r","."," ","B","e","e","s"," ","v","i","s","i",
      "t"," ","t","h","e"," ","f","l","o","w","e","r","s","."," ","T","h","e"," ","e","n","d",".">>}

(***************************************************************************)
(* The operations.                                                         *)
(***************************************************************************)
InitCall ==
  /\ awaiting = << >>
  /\ op = "none" /\ pc = "idle" /\ aiService = FALSE
  /\ question = << >> /\ context = << >> /\ activeId = NoId /\ sumText = << >>
  /\ answer = NoAnswer /\ summary = << >> /\ aiFailed = FALSE /\ outcome = "pending"

\* no function of the library is called on its own
NoPureCall == args = NoArgs /\ result = NoResult

\* an optional script (script?: PodcastScript): << >> is undefined
NoScript == << >>

\* generatePodcast has not been called
InitPodcastCall == podcasts = << >>

\* progress, a quotient of doubles: num / den
Quotient(num, den) == [num |-> num, den |-> den]

\* the fields of a new EnhancedTTSManager (lines 23-39)
NewManager ==
  [state |-> [isPlaying |-> FALSE, isPaused |-> FALSE, currentSegment |-> 0,
              totalSegments |-> 0, currentTime |-> 0, totalTime |-> 0,
              progress |-> Quotient(0, 1)],
   script |-> NoScript, pausedTime |-> 0, segmentStartTime |-> 0,
   updateInterval |-> FALSE]

\* a voice of the browser
Voice(name, lang) == [name |-> name, lang |-> lang]

\* the manager as constructed, and a speech synthesis with nothing to say
InitManager ==
  /\ ttsManager = NewManager
  /\ speechSynthesis = [queue |-> << >>, paused |-> FALSE, late |-> {}]
  /\ timers = {} /\ now = 0 /\ ttsPc = "idle" /\ controls = FALSE
  /\ spoken = << >> /\ stopped = << >> /\ threw = FALSE

\* nothing is narrated
NoSpeech ==
  /\ lemongrassService = FALSE /\ InitPodcastCall
  /\ InitManager /\ voices = <<Voice((* "Google US English" *)
      <<"G","o","o","g","l","e"," ","U","S"," ","E","n","g","l","i","s","h">>, <<"e","n","-","U","S">>)>>

\* the sectioner, given the pages of a document
InitSplit ==
  /\ rawPages \in Documents /\ sections = << >> /\ usedFallback = FALSE
  /\ useGemini = FALSE /\ geminiApiKey = << >> /\ geminiService = FALSE
  /\ InitCall /\ NoPureCall /\ NoSpeech

\* the composer and the summarizer: the store holds the settings that were
\* persisted and the sections of the documents read so far
InitAnswer ==
  /\ rawPages = << >> /\ usedFallback = FALSE
  /\ sections \in SectionLists
  /\ useGemini \in BOOLEAN /\ geminiApiKey \in ApiKeys
  /\ geminiService = FALSE
  /\ InitCall /\ NoPureCall /\ NoSpeech

\* splitChapters(rawPages, sourceId), whose result the store keeps
SplitChapters ==
  /\ pc = "idle" /\ op = "none"
  /\ sections' = splitChapters(rawPages, SourceId)
  /\ usedFallback' = TakesFallback(rawPages, SourceId)
  /\ op' = "splitChapters" /\ pc' = "done" /\ outcome' = "returned"
  /\ UNCHANGED <<speechVars, pureVars, rawPages, storeVars, geminiService, awaiting,
                 aiService, question, context, activeId, sumText, answer, summary,
                 aiFailed>>

\* initializeGeminiAI: an instance exactly when the trimmed key is not empty
initializeGeminiAI(key) == Len(Trim(key)) > 0

\* The continuation of an await is a microtask: once a call has settled, its
\* caller takes the result before the next event is handled.
BetweenEvents == pc # "done"

\* initializeAI(): at start-up, in the effect of App after the settings
\* changed, and when a key is entered
InitializeAI ==
  /\ BetweenEvents
  /\ geminiService' = initializeGeminiAI(geminiApiKey)
  /\ UNCHANGED <<speechVars, pureVars, splitVars, sections, storeVars, callVars>>

\* the checkbox of the settings: setUseGemini(e.target.checked)
SetUseGemini(checked) ==
  /\ BetweenEvents
  /\ useGemini' = checked
  /\ UNCHANGED <<speechVars, pureVars, splitVars, sections, geminiApiKey, geminiService,
                 callVars>>

\* handleGeminiApiKeyChange(key), up to its await; the input is shown while
\* useGemini is set
HandleGeminiApiKeyChange(key) ==
  /\ BetweenEvents
  /\ useGemini
  /\ geminiApiKey' = key
  /\ useGemini' = (useGemini \/ Len(Trim(key)) > 0)
  /\ geminiService' = IF Len(Trim(key)) > 0 THEN initializeGeminiAI(key) ELSE geminiService
  /\ UNCHANGED <<speechVars, pureVars, splitVars, sections, callVars>>

\* getGeminiAIService: the service after the automatic initialisation
ServiceAfterAutoInit ==
  IF ~geminiService /\ Len(geminiApiKey) > 0 THEN initializeGeminiAI(geminiApiKey)
  ELSE geminiService

\* getGeminiAIService() returns a service
HasAIService == useGemini /\ ServiceAfterAutoInit

\* every context ChatPane.ask can pass for the sections of the inputs
AskedContexts ==
  FixedContexts
    \cup {ScopeContext(scope, secs, aid) :
            scope \in {"current", "all"}, secs \in {<< >>, SampleSections},
            aid \in ActiveIds}

\* the answers of the rule-based system to the calls of the inputs, each
\* computed once
RuleBasedAnswers ==
  [a \in Questions \X {ctx \in AskedContexts : ~ContextIsBlank(ctx)}
            \X {<< >>, SampleSections} \X ActiveIds |->
     generateRuleBasedAnswer(a[1], cleanContent(a[2]), a[3], a[4])] @@ << >>

\* the answer of the rule-based system to a call of the inputs
ruleBasedAnswer(q, ctx, secs, aid) == RuleBasedAnswers[<<q, ctx, secs, aid>>]

\* the most calls that are at their await at a time
MaxAwaiting == 2

\* a call of demoAnswer(q, ctx, secs, aid) at its await
AnswerCall(q, ctx, secs, aid) ==
  [op |-> "demoAnswer", question |-> q, context |-> ctx, sections |-> secs,
   activeId |-> aid, sumText |-> << >>]

\* a call of summarizeDemo(text) at its await
SummaryCall(text) ==
  [op |-> "summarizeDemo", question |-> << >>, context |-> << >>, sections |-> << >>,
   activeId |-> NoId, sumText |-> text]

\* the calls at their await but the i-th
Others(i) == [k \in 1..(Len(awaiting) - 1) |-> awaiting[IF k < i THEN k ELSE k + 1]]

\* the i-th call at its await goes on: it is the call at hand
Resumes(i) ==
  /\ op' = awaiting[i].op
  /\ aiService' = (awaiting[i].op = "demoAnswer")
  /\ question' = awaiting[i].question /\ context' = awaiting[i].context
  /\ activeId' = awaiting[i].activeId /\ sumText' = awaiting[i].sumText
  /\ awaiting' = Others(i)

\* demoAnswer(q, ctx, sections, aid), up to its await
Ask(q, ctx, aid) ==
  /\ BetweenEvents
  /\ op' = "demoAnswer"
  /\ question' = q /\ context' = ctx /\ activeId' = aid
  /\ sumText' = << >> /\ summary' = << >>
  /\ aiFailed' = FALSE
  /\ IF ContextIsBlank(ctx)
     THEN /\ answer' = Answer(NoContentAvailable, "noContent", << >>)
          /\ pc' = "done" /\ outcome' = "returned"
          /\ aiService' = FALSE
          /\ UNCHANGED <<geminiService, awaiting>>
     ELSE /\ geminiService' = ServiceAfterAutoInit
          /\ aiService' = HasAIService
          /\ IF HasAIService
             THEN /\ Len(awaiting) < MaxAwaiting
                  /\ awaiting' = Append(awaiting, AnswerCall(q, ctx, sections, aid))
                  /\ pc' = "awaitAI" /\ outcome' = "pending"
                  /\ answer' = NoAnswer
             ELSE /\ answer' = ruleBasedAnswer(q, ctx, sections, aid)
                  /\ pc' = "done" /\ outcome' = "returned"
                  /\ UNCHANGED awaiting
  /\ UNCHANGED <<speechVars, pureVars, splitVars, sections, storeVars>>

\* aiService.generateEducationalResponse resolves
AIResolve(i, response) ==
  /\ BetweenEvents
  /\ i \in 1..Len(awaiting) /\ awaiting[i].op = "demoAnswer"
  /\ Resumes(i)
  /\ answer' = AIAnswer(response, awaiting[i].sections, awaiting[i].activeId)
  /\ summary' = << >> /\ aiFailed' = FALSE
  /\ pc' = "done" /\ outcome' = "returned"
  /\ UNCHANGED <<speechVars, pureVars, splitVars, sections, storeVars, geminiService>>

\* a faulty rejection, without the catch: the error leaves demoAnswer
AIRejectUncaught(i) ==
  /\ BetweenEvents
  /\ i \in 1..Len(awaiting) /\ awaiting[i].op = "demoAnswer"
  /\ Resumes(i)
  /\ answer' = NoAnswer
  /\ summary' = << >> /\ aiFailed' = TRUE
  /\ pc' = "done" /\ outcome' = "threw"
  /\ UNCHANGED <<speechVars, pureVars, splitVars, sections, storeVars, geminiService>>

\* aiService.generateEducationalResponse rejects: the catch logs the error,
\* and demoAnswer falls through to the rule-based system
AIReject(i) ==
  /\ BetweenEvents
  /\ i \in 1..Len(awaiting) /\ awaiting[i].op = "demoAnswer"
  /\ Resumes(i)
  /\ answer' = ruleBasedAnswer(awaiting[i].question, awaiting[i].context,
                               awaiting[i].sections, awaiting[i].activeId)
  /\ summary' = << >> /\ aiFailed' = TRUE
  /\ pc' = "done" /\ outcome' = "returned"
  /\ UNCHANGED <<speechVars, pureVars, splitVars, sections, storeVars, geminiService>>

\* summarizeDemo tries the AI summary: store.ui.useGemini && store.ui.geminiApiKey
SummaryUsesAI == useGemini /\ Len(geminiApiKey) > 0

\* summarizeDemo(text), up to its await
Summarize(text) ==
  /\ BetweenEvents
  /\ op' = "summarizeDemo"
  /\ sumText' = text
  /\ question' = << >> /\ context' = << >> /\ activeId' = NoId /\ answer' = NoAnswer
  /\ aiFailed' = FALSE /\ aiService' = FALSE
  /\ IF SummaryUsesAI
     THEN /\ Len(awaiting) < MaxAwaiting
          /\ awaiting' = Append(awaiting, SummaryCall(text))
          /\ pc' = "awaitAI" /\ outcome' = "pending"
          /\ summary' = << >>
     ELSE /\ summary' = generateExtractiveSummary(text)
          /\ pc' = "done" /\ outcome' = "returned"
          /\ UNCHANGED awaiting
  /\ UNCHANGED <<speechVars, pureVars, splitVars, sections, storeVars, geminiService>>

\* generateAISummary resolves
SummaryResolve(i, response) ==
  /\ BetweenEvents
  /\ i \in 1..Len(awaiting) /\ awaiting[i].op = "summarizeDemo"
  /\ Resumes(i)
  /\ summary' = CleanAISummary(response)
  /\ answer' = NoAnswer /\ aiFailed' = FALSE
  /\ pc' = "done" /\ outcome' = "returned"
  /\ UNCHANGED <<speechVars, pureVars, splitVars, sections, storeVars, geminiService>>

\* generateAISummary rejects: the catch falls back to the extractive summary
SummaryReject(i) ==
  /\ BetweenEvents
  /\ i \in 1..Len(awaiting) /\ awaiting[i].op = "summarizeDemo"
  /\ Resumes(i)
  /\ summary' = generateExtractiveSummary(awaiting[i].sumText)
  /\ answer' = NoAnswer /\ aiFailed' = TRUE
  /\ pc' = "done" /\ outcome' = "returned"
  /\ UNCHANGED <<speechVars, pureVars, splitVars, sections, storeVars, geminiService>>

\* the caller takes the result; no call is at hand
Return ==
  /\ pc = "done"
  /\ op' = "none" /\ pc' = "idle" /\ aiService' = FALSE
  /\ question' = << >> /\ context' = << >> /\ activeId' = NoId /\ sumText' = << >>
  /\ answer' = NoAnswer /\ summary' = << >> /\ aiFailed' = FALSE /\ outcome' = "pending"
  /\ UNCHANGED <<speechVars, pureVars, splitVars, sections, storeVars, geminiService,
                 awaiting>>

(***************************************************************************)
(* The functions of the library, called on their own.                      *)
(***************************************************************************)
\* generateRuleBasedAnswer is given contexts of at most MaxParagraphs
\* paragraphs
MaxParagraphs == 4

ParaSeeds == (* "Seed after seed falls, and each seed waits in the dark wet soil." *)
      <<"S","e","e","d"," ","a","f","t","e","r"," ","s","e","e","d"," ","f","a","l","l","s",","," ","a",
      "n","d"," ","e","a","c","h"," ","s","e","e","d"," ","w","a","i","t","s"," ","i","n"," ","t","h",
      "e"," ","d","a","r","k"," ","w","e","t"," ","s","o","i","l",".">>
ParaSprout == (* "A seed needs water and warmth before the first root can come out." *)
      <<"A"," ","s","e","e","d"," ","n","e","e","d","s"," ","w","a","t","e","r"," ","a","n","d"," ","w",
      "a","r","m","t","h"," ","b","e","f","o","r","e"," ","t","h","e"," ","f","i","r","s","t"," ","r",
      "o","o","t"," ","c","a","n"," ","c","o","m","e"," ","o","u","t",".">>
ParaGardener == (* "The gardener keeps every seed dry, and sows every seed in spring." *)
      <<"T","h","e"," ","g","a","r","d","e","n","e","r"," ","k","e","e","p","s"," ","e","v","e","r","y",
      " ","s","e","e","d"," ","d","r","y",","," ","a","n","d"," ","s","o","w","s"," ","e","v","e","r",
      "y"," ","s","e","e","d"," ","i","n"," ","s","p","r","i","n","g",".">>
ParaWater == (* "Rain water fills the pond where the frogs sing in the evening." *)
      <<"R","a","i","n"," ","w","a","t","e","r"," ","f","i","l","l","s"," ","t","h","e"," ","p","o","n",
      "d"," ","w","h","e","r","e"," ","t","h","e"," ","f","r","o","g","s"," ","s","i","n","g"," ","i",
      "n"," ","t","h","e"," ","e","v","e","n","i","n","g",".">>
\* alone in a context, its cosine against the query "seed" is 1 / (10 + 1e-8),
\* just below the floor: one "seed", nine "tick" and 18 other words,
\* 1 + 81 + 18 = 100
ParaTicks ==
  (* "tick tick tick tick tick tick tick tick tick went the clock while one seed lay by a " *)
      (* "jar of ink, two pens, six keys and my hat." *)
      <<"t","i","c","k"," ","t","i","c","k"," ","t","i","c","k"," ","t","i","c","k"," ","t","i","c","k",
      " ","t","i","c","k"," ","t","i","c","k"," ","t","i","c","k"," ","t","i","c","k"," ","w","e","n",
      "t"," ","t","h","e"," ","c","l","o","c","k"," ","w","h","i","l","e"," ","o","n","e"," ","s","e",
      "e","d"," ","l","a","y"," ","b","y"," ","a"," ","j","a","r"," ","o","f"," ","i","n","k",","," ",
      "t","w","o"," ","p","e","n","s",","," ","s","i","x"," ","k","e","y","s"," ","a","n","d"," ","m",
      "y"," ","h","a","t",".">>

RankParagraphs == {ParaSeeds, ParaSprout, ParaGardener, ParaWater, ParaTicks}
RankQuestions == {<<"s","e","e","d">>, <<"s","e","e","d"," ","w","a","t","e","r">>}

\* the words of ParaGrow, each twice: the two vectors are proportional, and
\* the 1e-8 of cosine ranks the longer one first
ParaGrow == (* "A seed will grow in warm soil after the spring rain falls on it." *)
      <<"A"," ","s","e","e","d"," ","w","i","l","l"," ","g","r","o","w"," ","i","n"," ","w","a","r","m",
      " ","s","o","i","l"," ","a","f","t","e","r"," ","t","h","e"," ","s","p","r","i","n","g"," ","r",
      "a","i","n"," ","f","a","l","l","s"," ","o","n"," ","i","t",".">>
ParaGrowTwice ==
  (* "After the spring rain falls on it a seed will grow in warm soil. In warm soil a seed" *)
      (* " will grow after the spring rain falls on it." *)
      <<"A","f","t","e","r"," ","t","h","e"," ","s","p","r","i","n","g"," ","r","a","i","n"," ","f","a",
      "l","l","s"," ","o","n"," ","i","t"," ","a"," ","s","e","e","d"," ","w","i","l","l"," ","g","r",
      "o","w"," ","i","n"," ","w","a","r","m"," ","s","o","i","l","."," ","I","n"," ","w","a","r","m",
      " ","s","o","i","l"," ","a"," ","s","e","e","d"," ","w","i","l","l"," ","g","r","o","w"," ","a",
      "f","t","e","r"," ","t","h","e"," ","s","p","r","i","n","g"," ","r","a","i","n"," ","f","a","l",
      "l","s"," ","o","n"," ","i","t",".">>

\* the paragraphs of a context are distinct and separated by a blank line
RankContexts ==
  {Join(ps, <<"\n","\n">>) :
     ps \in {f \in UNION {[1..n -> RankParagraphs] : n \in 1..MaxParagraphs} :
               \A i, j \in 1..Len(f) : f[i] = f[j] => i = j}}
    \cup {Join(<<ParaGrow, ParaGrowTwice>>, <<"\n","\n">>), Join(<<ParaGrowTwice, ParaGrow>>, <<"\n","\n">>)}

\* against the query "gardens" the two cosines differ in the last bit of the
\* double: 0.6002962319984408 for the first and 0.600296231998441 for the
\* second paragraph
ParaPlanting ==
  (* "planting seedling gardens gardens gardens flowers flowers watering watering flowers." *)
      <<"p","l","a","n","t","i","n","g"," ","s","e","e","d","l","i","n","g"," ","g","a","r","d","e","n",
      "s"," ","g","a","r","d","e","n","s"," ","g","a","r","d","e","n","s"," ","f","l","o","w","e","r",
      "s"," ","f","l","o","w","e","r","s"," ","w","a","t","e","r","i","n","g"," ","w","a","t","e","r",
      "i","n","g"," ","f","l","o","w","e","r","s",".">>
ParaSunlight ==
  (* "gardens flowers seedling gardens seedling gardens watering sunlight watering waterin" *)
      (* "g." *)
      <<"g","a","r","d","e","n","s"," ","f","l","o","w","e","r","s"," ","s","e","e","d","l","i","n","g",
      " ","g","a","r","d","e","n","s"," ","s","e","e","d","l","i","n","g"," ","g","a","r","d","e","n",
      "s"," ","w","a","t","e","r","i","n","g"," ","s","u","n","l","i","g","h","t"," ","w","a","t","e",
      "r","i","n","g"," ","w","a","t","e","r","i","n","g",".">>

\* against the query "seedling zebra" the third paragraph scores
\* 0.09996355561390305, just below the floor
ParaWatering == (* "watering watering gardens gardens flowers gardens gardens seedling." *)
      <<"w","a","t","e","r","i","n","g"," ","w","a","t","e","r","i","n","g"," ","g","a","r","d","e","n",
      "s"," ","g","a","r","d","e","n","s"," ","f","l","o","w","e","r","s"," ","g","a","r","d","e","n",
      "s"," ","g","a","r","d","e","n","s"," ","s","e","e","d","l","i","n","g",".">>
ParaSeedling == (* "gardens sunlight gardens gardens sunlight seedling sunlight seedling." *)
      <<"g","a","r","d","e","n","s"," ","s","u","n","l","i","g","h","t"," ","g","a","r","d","e","n","s",
      " ","g","a","r","d","e","n","s"," ","s","u","n","l","i","g","h","t"," ","s","e","e","d","l","i",
      "n","g"," ","s","u","n","l","i","g","h","t"," ","s","e","e","d","l","i","n","g",".">>
ParaFlowers == (* "flowers gardens flowers sunlight gardens watering seedling." *)
      <<"f","l","o","w","e","r","s"," ","g","a","r","d","e","n","s"," ","f","l","o","w","e","r","s"," ",
      "s","u","n","l","i","g","h","t"," ","g","a","r","d","e","n","s"," ","w","a","t","e","r","i","n",
      "g"," ","s","e","e","d","l","i","n","g",".">>

NearTies ==
  {[fn |-> "generateRuleBasedAnswer", question |-> <<"g","a","r","d","e","n","s">>,
    cleanContext |-> Join(<<ParaPlanting, ParaSunlight>>, <<"\n","\n">>)],
   [fn |-> "generateRuleBasedAnswer", question |-> <<"s","e","e","d","l","i","n","g"," ","z","e","b","r","a">>,
    cleanContext |-> Join(<<ParaWatering, ParaSeedling, ParaFlowers>>, <<"\n","\n">>)]}

RankArgs ==
  {[fn |-> "generateRuleBasedAnswer", question |-> q, cleanContext |-> c] :
     q \in RankQuestions, c \in RankContexts}
    \cup NearTies

InitPure ==
  /\ rawPages = << >> /\ sections = << >> /\ usedFallback = FALSE
  /\ useGemini = FALSE /\ geminiApiKey = << >> /\ geminiService = FALSE
  /\ InitCall /\ NoSpeech
  /\ result = NoResult

InitRank == InitPure /\ args \in RankArgs

\* generateRuleBasedAnswer(question, cleanContext, sections, activeSectionId)
GenerateRuleBasedAnswer ==
  /\ args.fn = "generateRuleBasedAnswer" /\ result = NoResult
  /\ result' = <<generateRuleBasedAnswer(args.question, args.cleanContext,
                                         sections, activeId)>>
  /\ UNCHANGED <<speechVars, args, splitVars, sections, storeVars, geminiService, callVars>>

NextRank == GenerateRuleBasedAnswer

\* the ranking of the composer
SpecRank == InitRank /\ [][NextRank]_vars

\* generateExtractiveSummary is given every text of at most MaxSentences
\* sentences out of SummarySentences, bare and with white space around it,
\* and three other texts
MaxSentences == 5

SummarySentences == {(* "Plants need light." *)
      <<"P","l","a","n","t","s"," ","n","e","e","d"," ","l","i","g","h","t",".">>, (* "Light feeds plants!" *)
      <<"L","i","g","h","t"," ","f","e","e","d","s"," ","p","l","a","n","t","s","!">>, <<"D","o"," ","b","e","e","s"," ","s","l","e","e","p","?">>}

NineSentences ==
  (* "Plants make food. The leaf is green. Water rises in the stem. Roots hold the soil! I" *)
      (* "s light needed? Light is needed. Seeds travel far. Bees visit the flowers. Plants re" *)
      (* "st." *)
      <<"P","l","a","n","t","s"," ","m","a","k","e"," ","f","o","o","d","."," ","T","h","e"," ","l","e",
      "a","f"," ","i","s"," ","g","r","e","e","n","."," ","W","a","t","e","r"," ","r","i","s","e","s",
      " ","i","n"," ","t","h","e"," ","s","t","e","m","."," ","R","o","o","t","s"," ","h","o","l","d",
      " ","t","h","e"," ","s","o","i","l","!"," ","I","s"," ","l","i","g","h","t"," ","n","e","e","d",
      "e","d","?"," ","L","i","g","h","t"," ","i","s"," ","n","e","e","d","e","d","."," ","S","e","e",
      "d","s"," ","t","r","a","v","e","l"," ","f","a","r","."," ","B","e","e","s"," ","v","i","s","i",
      "t"," ","t","h","e"," ","f","l","o","w","e","r","s","."," ","P","l","a","n","t","s"," ","r","e",
      "s","t",".">>

\* 25 sentences: a quarter of them is 7, more than the 6 a summary may hold
ManySentences ==
  (* "Ants dig. Bees hum all day long. Cats nap. Dogs run. Eels swim up the cold river. Fi" *)
      (* "sh leap. Goats climb. Hens lay. Ibis wade. Jays call. Kites soar very high above. La" *)
      (* "rks sing. Mice hide. Newts creep. Owls hoot at night. Pigs root. Quail nest. Rats gn" *)
      (* "aw. Seals bark on wet rocks. Toads hop. Urchins sting. Voles dig. Wasps buzz near ri" *)
      (* "pe fruit. Yaks graze. Zebras roam the wide dry plain." *)
      <<"A","n","t","s"," ","d","i","g","."," ","B","e","e","s"," ","h","u","m"," ","a","l","l"," ","d",
      "a","y"," ","l","o","n","g","."," ","C","a","t","s"," ","n","a","p","."," ","D","o","g","s"," ",
      "r","u","n","."," ","E","e","l","s"," ","s","w","i","m"," ","u","p"," ","t","h","e"," ","c","o",
      "l","d"," ","r","i","v","e","r","."," ","F","i","s","h"," ","l","e","a","p","."," ","G","o","a",
      "t","s"," ","c","l","i","m","b","."," ","H","e","n","s"," ","l","a","y","."," ","I","b","i","s",
      " ","w","a","d","e","."," ","J","a","y","s"," ","c","a","l","l","."," ","K","i","t","e","s"," ",
      "s","o","a","r"," ","v","e","r","y"," ","h","i","g","h"," ","a","b","o","v","e","."," ","L","a",
      "r","k","s"," ","s","i","n","g","."," ","M","i","c","e"," ","h","i","d","e","."," ","N","e","w",
      "t","s"," ","c","r","e","e","p","."," ","O","w","l","s"," ","h","o","o","t"," ","a","t"," ","n",
      "i","g","h","t","."," ","P","i","g","s"," ","r","o","o","t","."," ","Q","u","a","i","l"," ","n",
      "e","s","t","."," ","R","a","t","s"," ","g","n","a","w","."," ","S","e","a","l","s"," ","b","a",
      "r","k"," ","o","n"," ","w","e","t"," ","r","o","c","k","s","."," ","T","o","a","d","s"," ","h",
      "o","p","."," ","U","r","c","h","i","n","s"," ","s","t","i","n","g","."," ","V","o","l","e","s",
      " ","d","i","g","."," ","W","a","s","p","s"," ","b","u","z","z"," ","n","e","a","r"," ","r","i",
      "p","e"," ","f","r","u","i","t","."," ","Y","a","k","s"," ","g","r","a","z","e","."," ","Z","e",
      "b","r","a","s"," ","r","o","a","m"," ","t","h","e"," ","w","i","d","e"," ","d","r","y"," ","p",
      "l","a","i","n",".">>

\* ten times the double 1/10 is 0.9999999999999999: the second sentence, with
\* a score of 1, is the one picked
TenTimesATenth == (* "x x x x x x x x x x. unique. y. y." *)
      <<"x"," ","x"," ","x"," ","x"," ","x"," ","x"," ","x"," ","x"," ","x"," ","x","."," ","u","n","i",
      "q","u","e","."," ","y","."," ","y",".">>

JoinedSentences ==
  {Join(f, <<" ">>) : f \in UNION {[1..n -> SummarySentences] : n \in 0..MaxSentences}}

SummaryInputs ==
  JoinedSentences \cup {<<" "," ">> \o t \o <<"\n">> : t \in JoinedSentences}
    \cup {NineSentences, ManySentences, TenTimesATenth}

SummaryArgs == {[fn |-> "generateExtractiveSummary", text |-> t] : t \in SummaryInputs}

InitSummary == InitPure /\ args \in SummaryArgs

\* generateExtractiveSummary(text)
GenerateExtractiveSummary ==
  /\ args.fn = "generateExtractiveSummary" /\ result = NoResult
  /\ result' = <<generateExtractiveSummary(args.text)>>
  /\ UNCHANGED <<speechVars, args, splitVars, sections, storeVars, geminiService, callVars>>

NextSummary == GenerateExtractiveSummary

\* the extractive summarizer
SpecSummary == InitSummary /\ [][NextSummary]_vars

\* tokenize is given every text of at most MaxTextLen characters out of
\* TokenChars, tfidfParagraphs every corpus of at most MaxCorpus paragraphs
\* out of CorpusParagraphs, cosine every pair of vectors over VectorKeys with
\* weights out of VectorWeights and the pairs of QueryPairs
MaxTextLen == 3
MaxCorpus == 3

\* U+212A KELVIN SIGN has the lower case "k", U+0130 LATIN CAPITAL LETTER I
\* WITH DOT ABOVE the two code units "i" and U+0307
TokenChars == {"a", "B", "7", " ", "-", "_", "\n", "<U+212A>", "<U+0130>"}
TokenTexts == UNION {[1..n -> TokenChars] : n \in 0..MaxTextLen}

CorpusParagraphs == {<<"r","e","d"," ","r","e","d"," ","f","o","x">>, <<"F","o","x"," ","d","e","n">>, << >>, <<"R","e","d",","," ","b","l","u","e","!">>, <<"o","w","l">>}
Corpora == UNION {[1..n -> CorpusParagraphs] : n \in 1..MaxCorpus}

VectorKeys == {<<"x">>, <<"y">>}
VectorWeights == {DoubleZero, One, Two}
\* the Maps of at most MaxEntries entries, with distinct keys
MaxEntries == 2
Vectors ==
  {m \in UNION {[1..n -> [key : VectorKeys, value : VectorWeights]] : n \in 0..MaxEntries} :
     \A i, j \in 1..Len(m) : m[i].key = m[j].key => i = j}

\* the pairs generateRuleBasedAnswer gives to cosine: the vector of a query
\* and the vector of a paragraph of the corpus the query is asked about
VectorQueries == {<< >>, <<"z","e","b","r","a">>, <<"f","o","x">>, (* "Red owl, red fox" *)
      <<"R","e","d"," ","o","w","l",","," ","r","e","d"," ","f","o","x">>}
VectorCorpora == {<<<<"F","o","x"," ","d","e","n">>>>, <<<<"r","e","d"," ","r","e","d"," ","f","o","x">>, <<"o","w","l">>>>, <<<<"R","e","d",","," ","b","l","u","e","!">>, << >>, <<"o","w","l">>>>}
QueryPairs ==
  UNION {{[fn |-> "cosine",
           a |-> vectorizeQuery(q, tfidfParagraphs(ps).vocabulary, Len(ps)),
           b |-> tfidfParagraphs(ps).vectors[i]] : q \in VectorQueries, i \in 1..Len(ps)} :
           ps \in VectorCorpora}

SearchArgs ==
  {[fn |-> "tokenize", text |-> t] : t \in TokenTexts}
    \cup {[fn |-> "tfidfParagraphs", paragraphs |-> ps] : ps \in Corpora}
    \cup {[fn |-> "cosine", a |-> a, b |-> b] : a \in Vectors, b \in Vectors}
    \cup QueryPairs

InitSearch == InitPure /\ args \in SearchArgs

\* tokenize(text)
Tokenize ==
  /\ args.fn = "tokenize" /\ result = NoResult
  /\ result' = <<tokenize(args.text)>>
  /\ UNCHANGED <<speechVars, args, splitVars, sections, storeVars, geminiService, callVars>>

\* tfidfParagraphs(paragraphs)
TfidfParagraphs ==
  /\ args.fn = "tfidfParagraphs" /\ result = NoResult
  /\ result' = <<tfidfParagraphs(args.paragraphs)>>
  /\ UNCHANGED <<speechVars, args, splitVars, sections, storeVars, geminiService, callVars>>

\* cosine(a, b)
Cosine ==
  /\ args.fn = "cosine" /\ result = NoResult
  /\ result' = <<cosine(args.a, args.b)>>
  /\ UNCHANGED <<speechVars, args, splitVars, sections, storeVars, geminiService, callVars>>

NextSearch == Tokenize \/ TfidfParagraphs \/ Cosine

\* the functions of search.ts
SpecSearch == InitSearch /\ [][NextSearch]_vars


(***************************************************************************)
(* The EnhancedTTSManager (lib/enhancedTTS.ts, lines 22-262) and the       *)
(* speech synthesis of the browser it drives.                              *)
(***************************************************************************)
\* the most segments of a script, the most milliseconds the clock is
\* advanced by, in steps of TickMs, and the most utterances that are spoken
MaxSegments == 2
MaxClock == 2000
MaxSpoken == 3
TickMs == 1000

\* a PodcastSegment, and the scripts of one to MaxSegments segments in
\* which the two hosts alternate
Segment(speaker, text) == [speaker |-> speaker, text |-> text]
ConversationSegment(i) ==
  IF i % 2 = 1 THEN Segment("host1", <<"H","i","!">>) ELSE Segment("host2", <<"O","k","a","y","?">>)
Scripts == {[i \in 1..n |-> ConversationSegment(i)] : n \in 1..MaxSegments}

\* the voice lists of three browsers: one American voice, the voices the
\* manager looks for by name, and no English voice at all
VoiceLists ==
  {<<Voice((* "Google US English" *)
      <<"G","o","o","g","l","e"," ","U","S"," ","E","n","g","l","i","s","h">>, <<"e","n","-","U","S">>)>>,
   <<Voice(<<"M","i","c","r","o","s","o","f","t"," ","D","a","v","i","d">>, <<"e","n","-","U","S">>), Voice(<<"A","l","e","x">>, <<"e","n","-","U","S">>)>>,
   <<Voice(<<"A","n","n","a">>, <<"d","e","-","D","E">>)>>}

\* the outcomes of getVoiceForSpeaker: a voice, undefined, or the TypeError
\* of indexing the undefined result of find
FoundVoice(v) == [kind |-> "voice", voice |-> v]
NoVoice == [kind |-> "undefined"]
VoiceTypeError == [kind |-> "TypeError"]

getVoiceForSpeaker(speaker, vs) ==
  LET american == {i \in 1..Len(vs) : Includes(vs[i].lang, <<"e","n","-","U","S">>)}
      named ==
        IF speaker = "host1"
        THEN {i \in 1..Len(vs) :
                /\ \/ Includes(vs[i].name, <<"D","a","v","i","d">>)
                   \/ Includes(vs[i].name, <<"M","a","l","e">>)
                   \/ Includes(vs[i].name, <<"M","a","r","k">>)
                /\ Includes(vs[i].lang, <<"e","n">>)}
        ELSE {i \in 1..Len(vs) :
                /\ \/ Includes(vs[i].name, <<"J","a","m","e","s">>)
                   \/ Includes(vs[i].name, <<"A","l","e","x">>)
                   \/ Includes(vs[i].name, <<"F","e","m","a","l","e">>)
                /\ Includes(vs[i].lang, <<"e","n">>)
                /\ ~Includes(vs[i].name, <<"D","a","v","i","d">>)}
  IN IF named # {} THEN FoundVoice(vs[SetMin(named)])
     ELSE IF american = {} THEN VoiceTypeError
     \* a voice has no property 0 or 1
     ELSE IF speaker = "host1" THEN NoVoice
     ELSE FoundVoice(vs[1])

\* Math.ceil(text.length / 3) * 1000
estimateSegmentDuration(text) == ((Len(text) + 2) \div 3) * 1000

RECURSIVE TotalTimeFrom(_, _)
TotalTimeFrom(segments, i) ==
  IF i > Len(segments) THEN 0
  ELSE estimateSegmentDuration(segments[i].text) + TotalTimeFrom(segments, i + 1)

\* the manager, the speech synthesis and the timers, as a handler finds
\* them
World ==
  [mgr |-> ttsManager, synth |-> speechSynthesis, timers |-> timers,
   spoken |-> spoken, stopped |-> stopped, threw |-> FALSE]

\* what a handler leaves behind
Becomes(w) ==
  /\ ttsManager' = w.mgr /\ speechSynthesis' = w.synth /\ timers' = w.timers
  /\ spoken' = w.spoken /\ stopped' = w.stopped /\ threw' = w.threw

RangeOf(s) == {s[i] : i \in 1..Len(s)}

\* an utterance of the manager: its onend and onerror close over the segment
ManagerUtterance(id, index, text) ==
  [id |-> id, index |-> index, text |-> text, owner |-> "manager", call |-> 0]

\* the utterance of speak(text): it has no onend and no onerror
TextUtterance == [id |-> 0, index |-> 0, text |-> << >>, owner |-> "none", call |-> 0]

\* speechSynthesis.cancel(): the queue is emptied, whoever filled it; the
\* event of the utterances it held is delivered to their handlers later, if
\* at all
cancel(w) ==
  [w EXCEPT !.synth = [queue |-> << >>, paused |-> w.synth.paused,
                       late |-> w.synth.late
                                  \cup {u \in RangeOf(w.synth.queue) : u.owner # "none"}]]

\* speak(text), of lib/enhancedTTS.ts and of lib/tts.ts alike: cancel(),
\* then speechSynthesis.speak(u)
speak(w) == [cancel(w) EXCEPT !.synth.queue = <<TextUtterance>>]

startUpdateInterval(w) == [w EXCEPT !.mgr.updateInterval = TRUE]
stopUpdateInterval(w) == [w EXCEPT !.mgr.updateInterval = FALSE]

\* updateState (lines 103-119)
updateState(w) ==
  LET m == w.mgr
  IN IF m.state.isPlaying /\ ~m.state.isPaused
        /\ m.script # NoScript /\ m.state.currentSegment < Len(m.script[1])
     THEN LET time == m.pausedTime + (now - m.segmentStartTime)
          IN [w EXCEPT !.mgr.state.currentTime = time,
                       !.mgr.state.progress = Quotient(time * 100, m.state.totalTime)]
     ELSE w

\* stop (lines 176-186)
stop(w) ==
  LET reset == [w EXCEPT !.mgr.state.isPlaying = FALSE,
                         !.mgr.state.isPaused = FALSE,
                         !.mgr.state.currentSegment = 0,
                         !.mgr.state.currentTime = 0,
                         !.mgr.state.progress = Quotient(0, 1),
                         !.mgr.pausedTime = 0]
      done == stopUpdateInterval(cancel(reset))
  IN [done EXCEPT !.stopped = <<Len(done.spoken)>>]

\* speechSynthesis.speak(utterance)
speakUtterance(w, u) ==
  [w EXCEPT !.synth.queue = Append(@, u), !.spoken = Append(@, u.index)]

\* playCurrentSegment (lines 201-241); the utterance carries the segment
\* its handlers close over
playCurrentSegment(w) ==
  LET m == w.mgr
      index == m.state.currentSegment
  IN IF m.script = NoScript \/ index >= Len(m.script[1]) THEN stop(w)
     ELSE LET segment == m.script[1][index + 1]
              voice == getVoiceForSpeaker(segment.speaker, voices)
          IN IF voice = VoiceTypeError THEN [w EXCEPT !.threw = TRUE]
             ELSE speakUtterance(w, ManagerUtterance(Len(w.spoken) + 1, index,
                                                     segment.text))

\* play (lines 143-165)
play(w) ==
  LET m == w.mgr
  IN IF m.script = NoScript \/ m.state.currentSegment >= Len(m.script[1]) THEN w
     ELSE IF m.state.isPaused
     THEN startUpdateInterval(
            [w EXCEPT !.mgr.state.isPaused = FALSE,
                      !.mgr.state.isPlaying = TRUE,
                      !.mgr.segmentStartTime = now,
                      !.synth.paused = FALSE])
     ELSE LET begun == playCurrentSegment(
                         [w EXCEPT !.mgr.state.isPlaying = TRUE,
                                   !.mgr.state.isPaused = FALSE,
                                   !.mgr.segmentStartTime = now])
          IN IF begun.threw THEN begun ELSE startUpdateInterval(begun)

\* pause (lines 167-174)
pause(w) ==
  IF w.mgr.state.isPlaying
  THEN stopUpdateInterval(
         [w EXCEPT !.mgr.state.isPaused = TRUE,
                   !.mgr.pausedTime = @ + (now - w.mgr.segmentStartTime),
                   !.synth.paused = TRUE])
  ELSE w

\* skip (lines 188-199)
skip(w) ==
  LET m == w.mgr
      index == m.state.currentSegment
  IN IF m.script # NoScript /\ index < Len(m.script[1]) - 1
     THEN LET moved ==
                [cancel(w) EXCEPT
                   !.mgr.state.currentSegment = index + 1,
                   !.mgr.pausedTime = @ + estimateSegmentDuration(m.script[1][index + 1].text),
                   !.mgr.segmentStartTime = now]
          IN IF m.state.isPlaying THEN playCurrentSegment(moved) ELSE moved
     ELSE w

\* utterance.onend (lines 217-229), up to setTimeout
onend(w, u) ==
  IF w.mgr.state.isPlaying THEN [w EXCEPT !.timers = @ \cup {u}] ELSE w

\* the callback of the timer (lines 222-227)
afterPause(w, u) ==
  playCurrentSegment(
    [w EXCEPT !.timers = @ \ {u},
              !.mgr.state.currentSegment = @ + 1,
              !.mgr.pausedTime = @ + estimateSegmentDuration(u.text),
              !.mgr.segmentStartTime = now])

\* a faulty onerror, which moves on without playCurrentSegment
onerrorWithoutPlay(w, u) == [w EXCEPT !.mgr.state.currentSegment = @ + 1]

\* utterance.onerror (lines 231-235)
onerror(w, u) ==
  playCurrentSegment([w EXCEPT !.mgr.state.currentSegment = @ + 1])

\* the utterance leaves the queue of the speech synthesis
Unqueued(w, u) ==
  [w EXCEPT !.synth.queue = SelectSeq(@, LAMBDA v : v # u)]
Delivered(w, u) == [w EXCEPT !.synth.late = @ \ {u}]

\* a handler that may speak runs only while the log of utterances has room
CanSpeak == Len(spoken) < MaxSpoken

otherVars == <<restVars, podcastVars>>

\* a new manager in a browser with one of the voice lists
InitTTS ==
  /\ rawPages = << >> /\ sections = << >> /\ usedFallback = FALSE
  /\ useGemini = FALSE /\ geminiApiKey = << >> /\ geminiService = FALSE
  /\ InitCall /\ NoPureCall
  /\ lemongrassService = FALSE /\ InitPodcastCall
  /\ InitManager /\ voices \in VoiceLists

\* playScript(script), up to its await (lines 121-131)
PlayScript(segments) ==
  /\ ttsPc = "idle"
  /\ ttsManager' =
       [ttsManager EXCEPT
          !.script = <<segments>>,
          !.state.totalSegments = Len(segments),
          !.state.totalTime = TotalTimeFrom(segments, 1),
          !.state.currentSegment = 0,
          !.state.currentTime = 0,
          !.state.progress = Quotient(0, 1),
          !.pausedTime = 0]
  /\ ttsPc' = "awaitVoices"
  /\ stopped' = << >> /\ threw' = FALSE
  /\ UNCHANGED <<speechSynthesis, timers, voices, now, controls, spoken>>
  /\ UNCHANGED otherVars

\* initializeVoices resolves: this.play(), and the controls are returned
\* unless play threw
VoicesReady ==
  /\ ttsPc = "awaitVoices" /\ CanSpeak
  /\ LET w == play([World EXCEPT !.stopped = << >>])
     IN /\ Becomes(w)
        /\ controls' = (controls \/ ~w.threw)
  /\ ttsPc' = "idle"
  /\ UNCHANGED <<voices, now>>
  /\ UNCHANGED otherVars

\* controls.play()
Play ==
  /\ controls /\ CanSpeak
  /\ Becomes(play([World EXCEPT !.stopped = << >>]))
  /\ UNCHANGED <<voices, now, ttsPc, controls>>
  /\ UNCHANGED otherVars

\* controls.pause(); pressed again and again it adds to pausedTime without
\* end, so it is followed while pausedTime is within the clock's range
Pause ==
  /\ controls /\ ttsManager.pausedTime < MaxClock
  /\ Becomes(pause([World EXCEPT !.stopped = << >>]))
  /\ UNCHANGED <<voices, now, ttsPc, controls>>
  /\ UNCHANGED otherVars

\* controls.stop()
Stop ==
  /\ controls
  /\ Becomes(stop(World))
  /\ UNCHANGED <<voices, now, ttsPc, controls>>
  /\ UNCHANGED otherVars

\* speak(text) of lib/enhancedTTS.ts, as ChapterTools calls it for a podcast
\* of one speaker: it empties the queue of the manager too, and leaves the
\* manager's state as it is
Speak ==
  /\ Becomes(speak(World))
  /\ UNCHANGED <<voices, now, ttsPc, controls>>
  /\ UNCHANGED otherVars

\* controls.skip()
Skip ==
  /\ controls /\ CanSpeak
  /\ Becomes(skip([World EXCEPT !.stopped = << >>]))
  /\ UNCHANGED <<voices, now, ttsPc, controls>>
  /\ UNCHANGED otherVars

\* the utterance being spoken ends: its onend runs
UtteranceEnd ==
  /\ speechSynthesis.queue # << >> /\ ~speechSynthesis.paused
  /\ Head(speechSynthesis.queue).owner = "manager"
  /\ LET u == Head(speechSynthesis.queue)
     IN Becomes(onend(Unqueued(World, u), u))
  /\ UNCHANGED <<voices, now, ttsPc, controls>>
  /\ UNCHANGED otherVars

\* the utterance being spoken fails: its onerror runs
UtteranceError ==
  /\ speechSynthesis.queue # << >> /\ CanSpeak
  /\ Head(speechSynthesis.queue).owner = "manager"
  /\ LET u == Head(speechSynthesis.queue)
     IN Becomes(onerror(Unqueued(World, u), u))
  /\ UNCHANGED <<voices, now, ttsPc, controls>>
  /\ UNCHANGED otherVars

\* the utterance of speak(text) ends or fails: no handler runs
TextUtteranceEnd ==
  /\ speechSynthesis.queue # << >>
  /\ Head(speechSynthesis.queue).owner = "none"
  /\ Becomes(Unqueued(World, Head(speechSynthesis.queue)))
  /\ UNCHANGED <<voices, now, ttsPc, controls>>
  /\ UNCHANGED otherVars

\* the event of an utterance that cancel() removed is delivered as an end
LateEnd(u) ==
  /\ u \in speechSynthesis.late
  /\ Becomes(onend(Delivered(World, u), u))
  /\ UNCHANGED <<voices, now, ttsPc, controls>>
  /\ UNCHANGED otherVars

\* the event of an utterance that cancel() removed is delivered as an error
LateError(u) ==
  /\ u \in speechSynthesis.late /\ CanSpeak
  /\ Becomes(onerror(Delivered(World, u), u))
  /\ UNCHANGED <<voices, now, ttsPc, controls>>
  /\ UNCHANGED otherVars

\* the timer of an onend fires
Timer(u) ==
  /\ u \in timers /\ CanSpeak
  /\ Becomes(afterPause(World, u))
  /\ UNCHANGED <<voices, now, ttsPc, controls>>
  /\ UNCHANGED otherVars

\* the interval of startUpdateInterval fires
UpdateState ==
  /\ ttsManager.updateInterval
  /\ Becomes(updateState(World))
  /\ UNCHANGED <<voices, now, ttsPc, controls>>
  /\ UNCHANGED otherVars

\* time passes
Tick ==
  /\ now + TickMs <= MaxClock
  /\ now' = now + TickMs
  /\ UNCHANGED <<ttsManager, speechSynthesis, timers, voices, ttsPc, controls, spoken,
                 stopped, threw>>
  /\ UNCHANGED otherVars

\* the utterances a handler may belong to
Utterances ==
  {ManagerUtterance(k, i, ConversationSegment(i + 1).text) :
     k \in 1..MaxSpoken, i \in 0..(MaxSegments - 1)}

NextTTS ==
  \/ \E s \in Scripts : PlayScript(s)
  \/ VoicesReady
  \/ Play
  \/ Pause
  \/ Stop
  \/ Skip
  \/ Speak
  \/ UtteranceEnd
  \/ UtteranceError
  \/ TextUtteranceEnd
  \/ \E u \in Utterances : LateEnd(u)
  \/ \E u \in Utterances : LateError(u)
  \/ \E u \in Utterances : Timer(u)
  \/ UpdateState
  \/ Tick

\* the manager under the hands of a listener
SpecTTS == InitTTS /\ [][NextTTS]_vars

\* the first playScript of a new manager
StartScript(segments) == ttsManager.script = NoScript /\ PlayScript(segments)

\* a script played to its end with no hand on the controls
NextPlayback ==
  \/ \E s \in Scripts : StartScript(s)
  \/ VoicesReady
  \/ UtteranceEnd
  \/ UtteranceError
  \/ \E u \in Utterances : Timer(u)
  \/ UpdateState
  \/ Tick

\* the voices load, every utterance ends or fails, and every timer fires
FairPlayback ==
  /\ WF_vars(VoicesReady)
  /\ WF_vars(UtteranceEnd \/ UtteranceError)
  /\ WF_vars(\E u \in Utterances : Timer(u))

SpecPlayback == InitTTS /\ [][NextPlayback]_vars /\ FairPlayback

(***************************************************************************)
(* generatePodcast (lib/tts.ts) with the Lemongrass service                *)
(* (lib/lemongrass.ts), the scripts of lib/podcastScript.ts and the        *)
(* narration of speak and speakConversational.                             *)
(*                                                                         *)
(* A script is the sequence of its segments, and a segment is what         *)
(* speakNextSegment depends on: the type of its text.  The template writes *)
(* strings; a script read from the response of the AI holds whatever the   *)
(* response lists.                                                         *)
(***************************************************************************)
\* the most calls of generatePodcast in a behaviour, and the most segments
\* of a script read from an AI response
MaxPodcasts == 2
MaxAISegments == 2

\* extractKeyPoints: the most sentences and phrases it takes, the fewest
\* sentences it is content with, and the lengths it asks for
MaxPointSentences == 8
MinPointSentences == 3
MaxPointPhrases == 6
MinPointSentenceLen == 30
MinPointPhraseLen == 20
\* a follow-up is added after every third point
FollowUpEvery == 3

\* split(sep).map(s => s.trim()).filter(s => s.length > n).slice(0, k)
TrimmedLongPieces(s, C, n, k) ==
  Take(SelectSeq([i \in 1..Len(SplitOnRuns(s, C, 1)) |-> Trim(SplitOnRuns(s, C, 1)[i])],
                 LAMBDA piece : Len(piece) > n), k)

\* extractKeyPoints, once the content is cleaned
KeyPointsOf(cleaned) ==
  IF Len(TrimmedLongPieces(cleaned, SentenceEndSet, MinPointSentenceLen, MaxPointSentences))
       < MinPointSentences
  THEN IF Len(TrimmedLongPieces(cleaned, {",", ";"}, MinPointPhraseLen, MaxPointPhrases)) > 0
       THEN TrimmedLongPieces(cleaned, {",", ";"}, MinPointPhraseLen, MaxPointPhrases)
       ELSE <<cleaned>>
  ELSE TrimmedLongPieces(cleaned, SentenceEndSet, MinPointSentenceLen, MaxPointSentences)

extractKeyPoints(content) == KeyPointsOf(Trim(CollapseAllSpace(RemovePageMarkers(content))))

\* generateTemplatePodcastScript: the opening of the two hosts, two segments
\* for every point, a follow-up after every third point but the last, and
\* the closing of the two hosts
TemplateSegments(points) ==
  2 + 2 * points
    + Cardinality({index \in 0..(points - 1) :
                     index % FollowUpEvery = FollowUpEvery - 1 /\ index < points - 1})
    + 2

generateTemplatePodcastScript(content) ==
  [i \in 1..TemplateSegments(Len(extractKeyPoints(content))) |-> "string"]

\* the scripts generateAIPodcastScript reads from a response: as many
\* segments as the response lists, none included, with a text of any type
\* that has a length to read (a text without one, undefined or null, makes
\* estimateTotalDuration throw, and the template is returned)
AIScripts == UNION {[1..n -> {"string", "number"}] : n \in 0..MaxAISegments}

\* generatePodcastScript tries the AI: store.ui.useGemini && store.ui.geminiApiKey
ScriptUsesAI == useGemini /\ Len(geminiApiKey) > 0

\* the keys the settings are given while podcasts are generated
PodcastApiKeys == {<< >>, <<"k","e","y">>}

ContentBrief == (* "Plants make food from light." *)
      <<"P","l","a","n","t","s"," ","m","a","k","e"," ","f","o","o","d"," ","f","r","o","m"," ","l","i",
      "g","h","t",".">>
ContentLong ==
  (* "[[PAGE:1]]\nPlants are growing in sunny gardens every day. They need water and light" *)
      (* " to make their food! Do the roots hold the soil together firmly? The seeds travel fa" *)
      (* "r away with the wind." *)
      <<"[","[","P","A","G","E",":","1","]","]","\n","P","l","a","n","t","s"," ","a","r","e"," ","g","r",
      "o","w","i","n","g"," ","i","n"," ","s","u","n","n","y"," ","g","a","r","d","e","n","s"," ","e",
      "v","e","r","y"," ","d","a","y","."," ","T","h","e","y"," ","n","e","e","d"," ","w","a","t","e",
      "r"," ","a","n","d"," ","l","i","g","h","t"," ","t","o"," ","m","a","k","e"," ","t","h","e","i",
      "r"," ","f","o","o","d","!"," ","D","o"," ","t","h","e"," ","r","o","o","t","s"," ","h","o","l",
      "d"," ","t","h","e"," ","s","o","i","l"," ","t","o","g","e","t","h","e","r"," ","f","i","r","m",
      "l","y","?"," ","T","h","e"," ","s","e","e","d","s"," ","t","r","a","v","e","l"," ","f","a","r",
      " ","a","w","a","y"," ","w","i","t","h"," ","t","h","e"," ","w","i","n","d",".">>
Contents == {ContentBrief, ContentLong}

\* the template script of every content
TemplateScripts == [content \in Contents |-> generateTemplatePodcastScript(content)]

\* the store with either setting of the AI, the module with or without the
\* Lemongrass service, and no call of generatePodcast so far
InitPodcast ==
  /\ rawPages = << >> /\ sections = << >> /\ usedFallback = FALSE
  /\ useGemini \in BOOLEAN /\ geminiApiKey \in PodcastApiKeys
  /\ geminiService = FALSE
  /\ InitCall /\ NoPureCall
  /\ lemongrassService \in BOOLEAN
  /\ InitPodcastCall
  /\ InitManager /\ voices = <<Voice((* "Google US English" *)
      <<"G","o","o","g","l","e"," ","U","S"," ","E","n","g","l","i","s","h">>, <<"e","n","-","U","S">>)>>

\* a call of generatePodcast(title, content, conversational): its arguments,
\* its locals service, script and result.status, whether it is in its catch
\* block, the await it is at ("done" once its promise is settled), the
\* currentIndex of its speakConversational, the narrations it began, the
\* segments it gave to speechSynthesis.speak, and how its promise settled
\* ("pending", "null", "result" or "TypeError")
NewPodcast(content, conversational, hasService) ==
  [content |-> content, conversational |-> conversational, service |-> hasService,
   script |-> NoScript, apiStatus |-> "none", caught |-> FALSE, pc |-> "start",
   currentIndex |-> 0, narrated |-> << >>, spokenSegments |-> << >>,
   returns |-> "pending"]

\* the calls, the speech synthesis and the timers, as a handler finds them
PodcastWorld ==
  [calls |-> podcasts, synth |-> speechSynthesis, timers |-> timers, threw |-> FALSE]

\* what a handler leaves behind
PodcastBecomes(w) ==
  /\ podcasts' = w.calls /\ speechSynthesis' = w.synth /\ timers' = w.timers
  /\ threw' = w.threw
  /\ UNCHANGED <<ttsManager, voices, now, ttsPc, controls, spoken, stopped>>

\* an utterance of speakConversational, of segment index of call c
PodcastUtterance(c, index) ==
  [id |-> 0, index |-> index, text |-> << >>, owner |-> "podcast", call |-> c]

\* what generatePodcast returns after its narration: the result of a
\* success, null without a service, after an error and in the catch block
ReturnOf(call) ==
  IF call.service /\ ~call.caught /\ call.apiStatus = "success" THEN "result" ELSE "null"

\* generatePodcast returns
Returned(w, c) ==
  [w EXCEPT !.calls[c].pc = "done", !.calls[c].returns = ReturnOf(w.calls[c])]

\* generatePodcast lets the TypeError of speakConversational out
Rejected(w, c) ==
  [w EXCEPT !.calls[c].pc = "done", !.calls[c].returns = "TypeError", !.threw = FALSE]

\* speakNextSegment (lines 144-227): resolve() past the last segment, and
\* generatePodcast goes on to its return; the TypeError of
\* segment.text.substring for a text that is no string; or the next
\* utterance
speakNextSegment(w, c) ==
  IF w.calls[c].currentIndex >= Len(w.calls[c].script[1]) THEN Returned(w, c)
  ELSE IF w.calls[c].script[1][w.calls[c].currentIndex + 1] # "string"
  THEN [w EXCEPT !.threw = TRUE]
  ELSE [w EXCEPT !.synth.queue = Append(@, PodcastUtterance(c, w.calls[c].currentIndex)),
                 !.calls[c].spokenSegments = Append(@, w.calls[c].currentIndex)]

\* speakConversational(script) (lines 138-231), up to the first utterance:
\* cancel(), then the executor of the promise, which starts at index 0
speakConversational(w, c) ==
  speakNextSegment([cancel(w) EXCEPT !.calls[c].narrated = Append(@, "script"),
                                     !.calls[c].currentIndex = 0,
                                     !.calls[c].pc = "awaitNarration"], c)

\* speak(content), and the return that follows it
SpeakContent(w, c) ==
  Returned([speak(w) EXCEPT !.calls[c].narrated = Append(@, "single")], c)

\* await speakConversational(script) outside the try (lines 244 and 304):
\* a TypeError thrown in the executor rejects the promise, and
\* generatePodcast with it
NarrateOrReject(w, c) ==
  IF speakConversational(w, c).threw THEN Rejected(speakConversational(w, c), c)
  ELSE speakConversational(w, c)

\* const script = await generatePodcastScript(title, content), up to its
\* await: generateAIPodcastScript is pending, or the template is the script
ScriptBegun(w, c) ==
  IF ScriptUsesAI THEN [w EXCEPT !.calls[c].pc = "awaitScript"]
  ELSE [w EXCEPT !.calls[c].script = <<TemplateScripts[w.calls[c].content]>>]

\* the narration of a call without a service, or in the catch block
NarrateUnguarded(w, c) ==
  IF w.calls[c].conversational THEN NarrateOrReject(w, c) ELSE SpeakContent(w, c)

\* the catch block (lines 297-307)
Caught(w, c) ==
  IF w.calls[c].conversational /\ ScriptUsesAI
  THEN ScriptBegun([w EXCEPT !.calls[c].caught = TRUE], c)
  ELSE NarrateUnguarded(ScriptBegun([w EXCEPT !.calls[c].caught = TRUE], c), c)

\* await speakConversational(script) inside the try (lines 270 and 283): a
\* TypeError thrown in the executor is caught
NarrateInTry(w, c) ==
  IF speakConversational(w, c).threw
  THEN Caught([speakConversational(w, c) EXCEPT !.threw = FALSE], c)
  ELSE speakConversational(w, c)

\* await service.generatePodcast(...)
ServiceBegun(w, c) == [w EXCEPT !.calls[c].pc = "awaitService"]

\* generatePodcast with the script at hand, or without one
Continued(w, c) ==
  IF w.calls[c].service /\ ~w.calls[c].caught THEN ServiceBegun(w, c)
  ELSE NarrateUnguarded(w, c)

\* generatePodcast (lines 233-308), up to its first await or to its return
generatePodcast(w, c) ==
  IF ~w.calls[c].conversational THEN Continued(w, c)
  ELSE IF ScriptUsesAI THEN ScriptBegun(w, c)
  ELSE Continued(ScriptBegun(w, c), c)

\* initializeLemongrass(apiKey)
InitializeLemongrass ==
  /\ lemongrassService' = TRUE
  /\ UNCHANGED <<podcasts, restVars, managerVars>>

\* generatePodcast(title, content, conversational) is called
GeneratePodcast(content, conversational) ==
  /\ Len(podcasts) < MaxPodcasts
  /\ PodcastBecomes(
       generatePodcast(
         [PodcastWorld EXCEPT
            !.calls = Append(@, NewPodcast(content, conversational, lemongrassService))],
         Len(podcasts) + 1))
  /\ UNCHANGED <<lemongrassService, restVars>>

\* generateAIPodcastScript settles, and generatePodcastScript resolves: with
\* the script read from the response, or with the template
ScriptResolves(c, script) ==
  /\ c \in 1..Len(podcasts) /\ podcasts[c].pc = "awaitScript"
  /\ PodcastBecomes(Continued([PodcastWorld EXCEPT !.calls[c].script = <<script>>], c))
  /\ UNCHANGED <<lemongrassService, restVars>>

\* service.generatePodcast resolves: its try returns status 'success', its
\* catch returns status 'error' (lines 261-295)
ServiceResolves(c, status) ==
  /\ c \in 1..Len(podcasts) /\ podcasts[c].pc = "awaitService"
  /\ PodcastBecomes(
       IF podcasts[c].conversational /\ podcasts[c].script # NoScript
       THEN NarrateInTry([PodcastWorld EXCEPT !.calls[c].apiStatus = status], c)
       ELSE SpeakContent([PodcastWorld EXCEPT !.calls[c].apiStatus = status], c))
  /\ UNCHANGED <<lemongrassService, restVars>>

\* utterance.onend (lines 208-219), up to setTimeout
segmentEnded(w, u) == [w EXCEPT !.timers = @ \cup {u}]

\* utterance.onerror (lines 221-225), and the callback of the timer of onend
\* (lines 215-218): currentIndex++; speakNextSegment()
nextSegment(w, u) ==
  speakNextSegment([w EXCEPT !.timers = @ \ {u},
                             !.calls[u.call].currentIndex = @ + 1], u.call)

\* the utterance being spoken is one of a script, and it ends
SegmentEnds ==
  /\ speechSynthesis.queue # << >> /\ ~speechSynthesis.paused
  /\ Head(speechSynthesis.queue).owner = "podcast"
  /\ PodcastBecomes(segmentEnded(Unqueued(PodcastWorld, Head(speechSynthesis.queue)),
                                 Head(speechSynthesis.queue)))
  /\ UNCHANGED <<lemongrassService, restVars>>

\* the utterance being spoken is one of a script, and it fails
SegmentFails ==
  /\ speechSynthesis.queue # << >>
  /\ Head(speechSynthesis.queue).owner = "podcast"
  /\ PodcastBecomes(nextSegment(Unqueued(PodcastWorld, Head(speechSynthesis.queue)),
                                Head(speechSynthesis.queue)))
  /\ UNCHANGED <<lemongrassService, restVars>>

\* the utterance of speak(content) ends or fails: no handler runs
ContentEnds ==
  /\ speechSynthesis.queue # << >>
  /\ Head(speechSynthesis.queue).owner = "none"
  /\ PodcastBecomes(Unqueued(PodcastWorld, Head(speechSynthesis.queue)))
  /\ UNCHANGED <<lemongrassService, restVars>>

\* the event of an utterance of a script that cancel() removed is delivered
\* as an end
LateSegmentEnd(u) ==
  /\ u \in speechSynthesis.late /\ u.owner = "podcast"
  /\ PodcastBecomes(segmentEnded(Delivered(PodcastWorld, u), u))
  /\ UNCHANGED <<lemongrassService, restVars>>

\* the event of an utterance of a script that cancel() removed is delivered
\* as an error
LateSegmentError(u) ==
  /\ u \in speechSynthesis.late /\ u.owner = "podcast"
  /\ PodcastBecomes(nextSegment(Delivered(PodcastWorld, u), u))
  /\ UNCHANGED <<lemongrassService, restVars>>

\* the timer of an onend fires
PauseElapses(u) ==
  /\ u \in timers /\ u.owner = "podcast"
  /\ PodcastBecomes(nextSegment(PodcastWorld, u))
  /\ UNCHANGED <<lemongrassService, restVars>>

NextPodcast ==
  \/ InitializeLemongrass
  \/ \E checked \in BOOLEAN : SetUseGemini(checked)
  \/ \E key \in PodcastApiKeys : HandleGeminiApiKeyChange(key)
  \/ \E content \in Contents, conversational \in BOOLEAN :
       GeneratePodcast(content, conversational)
  \/ \E c \in 1..Len(podcasts) :
       \E script \in AIScripts \cup {TemplateScripts[podcasts[c].content]} :
         ScriptResolves(c, script)
  \/ \E c \in 1..Len(podcasts), status \in {"success", "error"} : ServiceResolves(c, status)
  \/ SegmentEnds
  \/ SegmentFails
  \/ ContentEnds
  \/ \E u \in speechSynthesis.late : LateSegmentEnd(u)
  \/ \E u \in speechSynthesis.late : LateSegmentError(u)
  \/ \E u \in timers : PauseElapses(u)

\* the podcast feature
SpecPodcast == InitPodcast /\ [][NextPodcast]_vars
NextSplit == SplitChapters

\* the calls of demoAnswer that are made: any call of the inputs, and while
\* a call is at its await one of the few that overlap
AskInputs ==
  IF awaiting = << >>
  THEN UNION {Questions
                \X (FixedContexts \cup {ScopeContext("current", sections, aid),
                                        ScopeContext("all", sections, aid)})
                \X {aid} : aid \in ActiveIds}
  ELSE OverlappingAsks

\* those of them whose answer was computed
Asks ==
  {a \in AskInputs :
     ContextIsBlank(a[2]) \/ <<a[1], a[2], sections, a[3]>> \in DOMAIN RuleBasedAnswers}

\* the calls of summarizeDemo that are made
Texts == IF awaiting = << >> THEN SummaryTexts ELSE OverlappingTexts

NextAnswer ==
  \/ InitializeAI
  \/ \E checked \in BOOLEAN : SetUseGemini(checked)
  \/ \E key \in ApiKeys : HandleGeminiApiKeyChange(key)
  \/ \E a \in Asks : Ask(a[1], a[2], a[3])
  \/ \E i \in 1..Len(awaiting), r \in AIResponses : AIResolve(i, r)
  \/ \E i \in 1..Len(awaiting) : AIReject(i)
  \/ \E t \in Texts : Summarize(t)
  \/ \E i \in 1..Len(awaiting), r \in AIResponses : SummaryResolve(i, r)
  \/ \E i \in 1..Len(awaiting) : SummaryReject(i)
  \/ Return

\* the sectioner
SpecSplit == InitSplit /\ [][NextSplit]_vars
\* the composer and the summarizer
SpecAnswer == InitAnswer /\ [][NextAnswer]_vars

Init == InitSplit \/ InitAnswer \/ InitRank \/ InitSummary \/ InitSearch
        \/ InitPodcast \/ InitTTS
Next == NextSplit \/ NextAnswer \/ NextRank \/ NextSummary \/ NextSearch
        \/ NextPodcast \/ NextTTS
Spec == Init /\ [][Next]_vars

(***************************************************************************)
(* Properties of the sectioner (SpecSplit).                                *)
(***************************************************************************)
Split == op = "splitChapters" /\ pc = "done"

EndsWith(s, p) == Len(s) >= Len(p) /\ SubSeq(s, Len(s) - Len(p) + 1, Len(s)) = p

\* the pages whose raw text has a "Chapter N: Title" line as its first line
ChapterLinePages ==
  {i \in 1..Len(rawPages) :
     /\ Len(rawPages[i]) > 0
     /\ MatchChapterN(SplitLines(rawPages[i])[1]).matched}

\* C1: splitChapters on <<"Chapter 1: Origins\n<body>", "More text...">>
\* returns exactly one Section, titled "Origins", with startPage 1; and every
\* page whose first line is a chapter header starts a section that carries
\* the header's title and that page as its startPage.
C1_HeaderOnFirstLineStartsSection ==
  Split =>
    /\ rawPages = <<PageChapter, PageMore>> =>
         /\ Len(sections) = 1
         /\ sections[1].title = <<"O","r","i","g","i","n","s">>
         /\ sections[1].startPage = SomePage(1)
    /\ \A i \in ChapterLinePages :
         \E k \in 1..Len(sections) :
           /\ sections[k].title = MatchChapterN(SplitLines(rawPages[i])[1]).title
           /\ sections[k].startPage = SomePage(i)

\* C8: for every non-empty sequence of pages, splitChapters returns at least
\* one Section.
C8_NonEmptyPagesGiveSections ==
  (Split /\ Len(rawPages) >= 1) => Len(sections) >= 1

\* header detection kept nothing of a document without any text, and the
\* fallback still returned a section
C8_Witness ==
  /\ Split /\ Len(rawPages) >= 1
  /\ \A i \in 1..Len(rawPages) : rawPages[i] = PageEmpty
  /\ usedFallback
  /\ Len(sections) >= 1

\* C9: on the fallback path the page ranges of the sections partition
\* 1..Len(rawPages): the first starts at page 1, each next one starts right
\* after the previous one ends, no range is empty or longer than chunk, and
\* the last one ends at the last page.
C9_FallbackRangesPartitionPages ==
  (Split /\ usedFallback /\ Len(rawPages) >= 1) =>
    /\ Len(sections) >= 1
    /\ sections[1].startPage = SomePage(1)
    /\ sections[Len(sections)].endPage = SomePage(Len(rawPages))
    /\ \A k \in 1..Len(sections) :
         /\ sections[k].startPage # NoPage /\ sections[k].endPage # NoPage
         /\ sections[k].startPage[1] <= sections[k].endPage[1]
         /\ sections[k].endPage[1] - sections[k].startPage[1] < chunk
    /\ \A k \in 1..(Len(sections) - 1) :
         sections[k + 1].startPage[1] = sections[k].endPage[1] + 1

\* the fallback over more pages than one window holds
C9_Witness ==
  /\ Split /\ usedFallback
  /\ Len(rawPages) > chunk
  /\ Len(sections) = 2
  /\ sections[2].startPage = SomePage(chunk + 1)

\* C10 (as stated): every Section splitChapters emits, on either path, has
\* a cleaned text longer than 50 characters.
C10_EverySectionIsLong ==
  Split => \A k \in 1..Len(sections) : Len(sections[k].text) > MinSectionLen

\* C10 (amended): every Section emitted on the header-detection path, that
\* is by flush, has a cleaned text longer than 50 characters; the windows of
\* the fallback carry no such guarantee.
C10_FlushedSectionsAreLong ==
  (Split /\ ~usedFallback) =>
    \A k \in 1..Len(sections) : Len(sections[k].text) > MinSectionLen

\* header detection opened more sections than it kept: flush dropped one that
\* was too short and kept another
C10_Witness ==
  /\ Split /\ ~usedFallback
  /\ Len(sections) >= 1
  /\ LET blocks == BlocksOf(AllText(rawPages))
     IN Cardinality({b \in 1..Len(blocks) : StartsSection(blocks[b])}) >= Len(sections) + 1

(***************************************************************************)
(* Properties of the composer and the summarizer (SpecAnswer).             *)
(***************************************************************************)
Answered == op = "demoAnswer" /\ pc = "done"
\* the answer came from the rule-based pipeline
RuleBased == Answered /\ answer.kind # "ai"
\* demoAnswer found no AI responder
NoAIResponder == ~aiService
Attempted(step) == \E i \in 1..Len(answer.steps) : answer.steps[i] = step
LastLine(s) == LET lines == SplitLines(s) IN lines[Len(lines)]

\* C2: with no AI responder, a question 'What is X?' over a context with a
\* paragraph that defines X is answered with text taken from that paragraph,
\* followed by the citation line.
C2_DefinitionQuestionIsCited ==
  (/\ Answered /\ NoAIResponder
   /\ StartsWithAt(toLowerCase(question), 1, <<"w","h","a","t"," ","i","s"," ">>)
   /\ ~ContextIsBlank(context)
   /\ Len(relevantParagraphs(question,
                             ParagraphsOf(cleanContent(context), MinParagraphLen))) > 0
   /\ Len(sections) > 0)
  => /\ Attempted("tfidf")
     /\ EndsWith(answer.text, CitationLine(getSourceInfo(sections, activeId)))

\* C3: every answer of demoAnswer, on every path, ends with the italic
\* citation line *Based on "<title>" from ...* as its final line.
C3_EveryAnswerEndsWithCitation ==
  Answered =>
    LET final == LastLine(answer.text)
    IN /\ StartsWithAt(final, 1, <<"*","B","a","s","e","d"," ","o","n"," ","\"">>)
       /\ Includes(final, <<"\""," ","f","r","o","m"," ">>)
       /\ EndsWith(final, <<"*">>)

\* C4: when the TF-IDF ranking leaves no candidate above the 0.1 floor,
\* keyword matching is attempted before the generic 'could not find' message
\* is returned.
C4_KeywordMatchingBeforeGenericMessage ==
  (RuleBased /\ Attempted("tfidf") /\ answer.kind # "ranked") => Attempted("keyword")

\* the cleaned context has no paragraph longer than 50 characters
NoLongParagraph == Len(ParagraphsOf(cleanContent(context), MinParagraphLen)) = 0

\* C5: for every question, when the cleaned context has no paragraph longer
\* than 50 characters, the composer returns the insufficient-content message
\* (for a blank context: the no-content message) and attempts no retrieval,
\* neither TF-IDF nor keyword matching.
C5_NoParagraphNoRetrieval ==
  (RuleBased /\ NoLongParagraph) =>
    /\ answer.kind \in {"insufficient", "noContent"}
    /\ answer.steps = << >>

\* C6: without an AI responder, demoAnswer always returns a non-empty
\* string and never throws.
C6_RuleBasedAnswerIsNonEmpty ==
  (op = "demoAnswer" /\ NoAIResponder) =>
    /\ pc = "done"
    /\ outcome = "returned"
    /\ Len(answer.text) > 0

\* no AI responder, nothing to cite and too little content: the two weakest
\* inputs together still give a message
C6_Witness ==
  /\ Answered /\ NoAIResponder
  /\ sections = << >>
  /\ answer.kind = "insufficient"
  /\ Len(answer.text) > 0

\* C7: when the AI is enabled and its call rejects, demoAnswer returns
\* exactly the answer of the rule-based pipeline and summarizeDemo returns
\* exactly the extractive summary; neither lets the error out.
C7_AIFailureFallsBack ==
  (aiFailed /\ pc = "done") =>
    /\ outcome = "returned"
    /\ op = "demoAnswer" =>
         answer = generateRuleBasedAnswer(question, cleanContent(context), sections,
                                          activeId)
    /\ op = "summarizeDemo" => summary = generateExtractiveSummary(sumText)

\* the AI call of demoAnswer was rejected and a ranked, cited answer came back
C7_Witness ==
  /\ Answered /\ aiFailed /\ aiService
  /\ answer.kind = "ranked"


(***************************************************************************)
(* Page markers, page ranges and block order of the sectioner (SpecSplit). *)
(***************************************************************************)
\* C11: the text of every Section that splitChapters emits holds no inline
\* page marker "[[PAGE:n]]": cleaning removes the markers before emission.
C11_SectionTextHasNoPageMarker ==
  Split => \A k \in 1..Len(sections) : FirstMarkerAt(sections[k].text) = 0

(***************************************************************************)
(* The ranking of the composer (SpecRank).                                 *)
(***************************************************************************)
Ranked == args.fn = "generateRuleBasedAnswer" /\ result # NoResult

\* the cosine of every paragraph against the query vector
ScoresWith(q, t, N) ==
  [i \in 1..N |-> cosine(vectorizeQuery(q, t.vocabulary, N), t.vectors[i])] \o << >>
ScoresOf(q, paras) == ScoresWith(q, tfidfParagraphs(paras), Len(paras))

\* the paragraphs that come before paragraph i in descending order of score
Outranking(s, i) ==
  {j \in 1..Len(s) : \/ ScoreGreater(s[j], s[i])
                     \/ (j < i /\ ~ScoreGreater(s[i], s[j]))}

\* among the three highest scores, and above 1/10
Usable(s) == {i \in 1..Len(s) : Cardinality(Outranking(s, i)) < 3 /\ DoubleLess([neg |-> FALSE, sig |-> <<6554, 9830, 6553, 1638>>, exp |-> -56], s[i])}

\* C12: the paragraphs generateRuleBasedAnswer passes on to the answer are
\* exactly those among the 3 highest-scoring ones whose cosine against the
\* query is strictly greater than 0.1: the answer quotes these and no other
\* paragraph, and it is a ranked answer exactly when there is one.
C12_AnswerUsesTopThreeAboveFloor ==
  Ranked =>
    LET paras == ParagraphsOf(args.cleanContext, MinParagraphLen)
        s == ScoresOf(args.question, paras)
        usable == Usable(s)
    IN /\ \A i \in 1..Len(paras) : Includes(result[1].text, paras[i]) <=> i \in usable
       /\ result[1].kind = "ranked" <=> usable # {}

\* four paragraphs score above 0.1 and the answer is ranked: the fourth is
\* left out by its rank alone
C12_Witness ==
  /\ Ranked
  /\ LET paras == ParagraphsOf(args.cleanContext, MinParagraphLen)
         s == ScoresOf(args.question, paras)
     IN /\ Len(paras) = 4
        /\ \A i \in 1..4 : DoubleLess([neg |-> FALSE, sig |-> <<6554, 9830, 6553, 1638>>, exp |-> -56], s[i])
        /\ \E i \in 1..4 : ~Includes(result[1].text, paras[i])
  /\ result[1].kind = "ranked"

(***************************************************************************)
(* The extractive summarizer (SpecSummary).                                *)
(***************************************************************************)
Summarized == args.fn = "generateExtractiveSummary" /\ result # NoResult

\* the ways to read sum as sentences of sents joined by single spaces, taken
\* at increasing indices from j0 on: the set of the index sequences
RECURSIVE SelectionsFrom(_, _, _, _)
SelectionsFrom(sum, sents, j0, first) ==
  (IF sum = << >> /\ ~first THEN {<< >>} ELSE {})
  \cup UNION {LET piece == IF first THEN sents[j] ELSE <<" ">> \o sents[j]
              IN IF StartsWithAt(sum, 1, piece)
                 THEN {<<j>> \o r :
                         r \in SelectionsFrom(SubSeq(sum, Len(piece) + 1, Len(sum)),
                                              sents, j + 1, FALSE)}
                 ELSE {} : j \in j0..Len(sents)}

Selections(sum, sents) == SelectionsFrom(sum, sents, 1, TRUE)

\* C13: for every text of three sentences or fewer, generateExtractiveSummary
\* returns the text itself, trimmed of the white space around it.
C13_ShortTextIsReturnedTrimmed ==
  (Summarized /\ Len(SentencesOf(args.text)) <= 3) => result[1] = Trim(args.text)

\* a text of exactly three sentences with white space around it
C13_Witness ==
  /\ Summarized
  /\ Len(SentencesOf(args.text)) = 3
  /\ args.text # Trim(args.text)
  /\ result[1] = Trim(args.text)

\* C14: for every text of more than three sentences, the sentences of the
\* summary are sentences of the text in their original relative order: the
\* summary is a subsequence of the sentences, joined by single spaces.
C14_SummaryKeepsSentenceOrder ==
  (Summarized /\ Len(SentencesOf(args.text)) > 3) =>
     Selections(result[1], SentencesOf(args.text)) # {}

\* three sentences are picked and the one that scores highest is not the
\* first of them in the text
C14_Witness ==
  /\ Summarized
  /\ LET sents == SentencesOf(args.text)
         sc == SentenceScores(args.text, sents)
     IN /\ Len(sents) > 3
        /\ \E sel \in Selections(result[1], sents) :
             /\ Len(sel) >= 3
             /\ \E k \in 2..Len(sel) : DoubleLess(sc[sel[1]], sc[sel[k]])

\* C15: for every text of n > 3 sentences the summary holds exactly
\* min(6, ceil(n / 4)) sentences, and no sentence left out scores strictly
\* higher than a sentence of the summary.
C15_SummaryHoldsTheBestQuarter ==
  (Summarized /\ Len(SentencesOf(args.text)) > 3) =>
     LET sents == SentencesOf(args.text)
         n == Len(sents)
         sc == SentenceScores(args.text, sents)
         quarter == (n + 3) \div 4
     IN \E sel \in Selections(result[1], sents) :
          /\ Len(sel) = IF quarter < 6 THEN quarter ELSE 6
          /\ \A k \in 1..Len(sel) :
               \A j \in 1..n : DoubleLess(sc[sel[k]], sc[j]) => \E l \in 1..Len(sel) : sel[l] = j

\* 25 sentences of different scores: the summary holds 6 of them, not 7
C15_Witness ==
  /\ Summarized
  /\ LET sents == SentencesOf(args.text)
         sc == SentenceScores(args.text, sents)
     IN /\ Len(sents) = 25
        /\ \E sel \in Selections(result[1], sents) :
             /\ Len(sel) = 6
             /\ \E j \in 1..25 : DoubleLess(sc[j], sc[sel[1]])

(***************************************************************************)
(* The functions of search.ts (SpecSearch).                                *)
(***************************************************************************)
Tokenized == args.fn = "tokenize" /\ result # NoResult
Indexed == args.fn = "tfidfParagraphs" /\ result # NoResult
CosineTaken == args.fn = "cosine" /\ result # NoResult

\* the class [a-z0-9], which the replace of tokenize leaves as it is
AlphaNumeric == LowerSet \cup DigitSet

\* the positions where a run of lowercase letters and digits starts
RunStartsOf(text) ==
  {i \in 1..Len(text) : text[i] \in AlphaNumeric /\ (i = 1 \/ text[i - 1] \notin AlphaNumeric)}

\* the run of lowercase letters and digits that starts at position i
RunAt(text, i) ==
  LET stops == {j \in i..Len(text) : j = Len(text) \/ text[j + 1] \notin AlphaNumeric}
  IN SubSeq(text, i, SetMin(stops))

\* C16: for every text, tokenize returns non-empty tokens of lowercase
\* letters and digits only, in the order of the text: the tokens are the
\* maximal runs of a-z and 0-9 of the text in lower case, and every other
\* character separates.
C16_TokensAreTheAlphanumericRuns ==
  Tokenized =>
    LET low == toLowerCase(args.text)
        toks == result[1]
        starts == RunStartsOf(low)
    IN /\ \A k \in 1..Len(toks) :
            /\ Len(toks[k]) > 0
            /\ \A i \in 1..Len(toks[k]) : toks[k][i] \in LowerSet \cup DigitSet
       /\ Len(toks) = Cardinality(starts)
       /\ \A i \in starts : toks[Cardinality({j \in starts : j <= i})] = RunAt(low, i)

\* a text with a punctuation mark in front, an uppercase letter and a KELVIN
\* SIGN, whose lower case is the k of a token
C16_Witness ==
  /\ Tokenized
  /\ Len(args.text) >= 3
  /\ args.text[1] = "-"
  /\ \E i \in 1..Len(args.text) : args.text[i] \in UpperSet
  /\ \E i \in 1..Len(args.text) : args.text[i] = "<U+212A>"
  /\ \E k \in 1..Len(result[1]) : \E i \in 1..Len(result[1][k]) : result[1][k][i] = "k"

\* C17: for every corpus of N >= 1 paragraphs, every entry of the
\* document-frequency table of tfidfParagraphs is between 1 and N and is the
\* number of paragraphs that hold the term, however often each holds it.
C17_DocumentFrequencyCountsParagraphs ==
  (Indexed /\ Len(args.paragraphs) >= 1) =>
    LET N == Len(args.paragraphs)
        df == result[1].vocabulary
        holding(t) == {i \in 1..N : \E k \in 1..Len(tokenize(args.paragraphs[i])) :
                                      tokenize(args.paragraphs[i])[k] = t}
    IN /\ \A i \in 1..N : \A k \in 1..Len(tokenize(args.paragraphs[i])) :
            tokenize(args.paragraphs[i])[k] \in MapKeys(df)
       /\ \A t \in MapKeys(df) :
            /\ 1 <= MapGet(df, t) /\ MapGet(df, t) <= N
            /\ MapGet(df, t) = Cardinality(holding(t))

\* a term twice in one paragraph and once in another, of three paragraphs
C17_Witness ==
  /\ Indexed
  /\ Len(args.paragraphs) = 3
  /\ \E t \in MapKeys(result[1].vocabulary) :
       /\ MapGet(result[1].vocabulary, t) = 2
       /\ \E i \in 1..3 : Count(tokenize(args.paragraphs[i]), t) = 2

\* either vector is empty or all-zero, or the two share no key
NothingShared(a, b) ==
  \/ \A i \in 1..Len(a) : IsZero(a[i].value)
  \/ \A i \in 1..Len(b) : IsZero(b[i].value)
  \/ MapKeys(a) \cap MapKeys(b) = {}

\* C18: cosine(a, b) is exactly 0, never NaN, whenever either vector is empty
\* or all-zero or the two vectors share no key.
C18_NothingSharedScoresZero ==
  (CosineTaken /\ NothingShared(args.a, args.b)) => IsZero(result[1])

\* the vector of a query and the vector of a paragraph, neither empty, every
\* weight above zero, and no term in common: 0 / (|a| * |b| + 1e-8)
C18_Witness ==
  /\ CosineTaken
  /\ args \in QueryPairs
  /\ Len(args.a) > 0 /\ Len(args.b) > 0
  /\ \A i \in 1..Len(args.a) : ~IsZero(args.a[i].value)
  /\ \A i \in 1..Len(args.b) : ~IsZero(args.b[i].value)
  /\ MapKeys(args.a) \cap MapKeys(args.b) = {}
  /\ IsZero(result[1])

(***************************************************************************)
(* Page ranges and block order of the sectioner (SpecSplit).               *)
(***************************************************************************)
\* C19: every Section of splitChapters that carries both a startPage and an
\* endPage satisfies 1 <= startPage <= endPage <= rawPages.length, on the
\* header-detection path and on the fallback path.
C19_PageRangeIsWithinDocument ==
  Split =>
    \A k \in 1..Len(sections) :
      (sections[k].startPage # NoPage /\ sections[k].endPage # NoPage) =>
         /\ 1 <= sections[k].startPage[1]
         /\ sections[k].startPage[1] <= sections[k].endPage[1]
         /\ sections[k].endPage[1] <= Len(rawPages)

\* the elements of a set of numbers in ascending order
Ascending(S) == [k \in 1..Cardinality(S) |-> CHOOSE i \in S : Cardinality({j \in S : j < i}) = k - 1]

\* the runs of blocks between one header block and the next, in document
\* order: each run is a pair of block indices, first and last
BlockRuns(blocks) ==
  LET starts == IF Len(blocks) = 0 THEN {}
                ELSE {1} \cup {i \in 1..Len(blocks) : StartsSection(blocks[i])}
      first == Ascending(starts)
  IN [k \in 1..Len(first) |->
        [a |-> first[k], b |-> IF k < Len(first) THEN first[k + 1] - 1 ELSE Len(blocks)]]

RunText(blocks, r) == cleanTextContent(Join(SubSeq(blocks, r.a, r.b), <<"\n","\n">>))

\* C20: the sections of splitChapters are in document order: the blocks of
\* an earlier section all precede the blocks of a later one and no block is
\* part of two sections.  On the header path the sections are, in order,
\* the texts of the runs of blocks between headers that are long enough to
\* keep; on the fallback path they are the texts of successive page windows.
C20_SectionsFollowDocumentOrder ==
  Split =>
    IF usedFallback
    THEN \A k \in 1..Len(sections) :
           LET s == sections[k].startPage[1]
               e == sections[k].endPage[1]
           IN /\ sections[k].text =
                   cleanTextContent(Join([j \in 1..(e - s + 1) |->
                                            TagPage(rawPages[s + j - 1], s + j - 1)], <<"\n","\n">>))
              /\ k > 1 => sections[k - 1].endPage[1] < s
    ELSE LET blocks == BlocksOf(AllText(rawPages))
             runs == BlockRuns(blocks)
             kept == SelectSeq(runs, LAMBDA r : Len(RunText(blocks, r)) > 50)
         IN /\ Len(sections) = Len(kept)
            /\ \A k \in 1..Len(kept) :
                 /\ sections[k].text = RunText(blocks, kept[k])
                 /\ kept[k].a <= kept[k].b
                 /\ k > 1 => kept[k - 1].b < kept[k].a

\* two sections on the header path, the second opened by a header block
C20_Witness ==
  /\ Split /\ ~usedFallback
  /\ Len(sections) >= 2
  /\ Len(BlockRuns(BlocksOf(AllText(rawPages)))) >= 2

(***************************************************************************)
(* The fallback windows, the headers and the titles of the sectioner       *)
(* (SpecSplit).                                                            *)
(***************************************************************************)
\* the number of pages a section spans
PageSpan(s) == s.endPage[1] - s.startPage[1] + 1

\* C21: on the fallback path of splitChapters every window spans exactly 8
\* consecutive pages, and the k-th window is titled "Section k", for every
\* document length.
C21_EveryWindowSpansEightPages ==
  (Split /\ usedFallback) =>
    \A k \in 1..Len(sections) :
      /\ PageSpan(sections[k]) = 8
      /\ sections[k].title = <<"S","e","c","t","i","o","n"," ">> \o NumToStr(k)

\* C21, with the last window as the code cuts it: on the fallback path the
\* k-th window is titled "Section k"; every window but the last spans
\* exactly 8 pages and the last one spans the pages that remain, 1 to 8.
C21_WindowsSpanEightPagesButTheLast ==
  (Split /\ usedFallback) =>
    \A k \in 1..Len(sections) :
      /\ sections[k].title = <<"S","e","c","t","i","o","n"," ">> \o NumToStr(k)
      /\ sections[k].startPage = SomePage(8 * (k - 1) + 1)
      /\ IF k < Len(sections)
         THEN PageSpan(sections[k]) = 8
         ELSE /\ PageSpan(sections[k]) = Len(rawPages) - 8 * (k - 1)
              /\ PageSpan(sections[k]) \in 1..8

\* nine pages fall back to two windows, of eight pages and of one
C21_Witness ==
  /\ Split /\ usedFallback
  /\ Len(rawPages) = 9
  /\ Len(sections) = 2
  /\ PageSpan(sections[1]) = 8 /\ PageSpan(sections[2]) = 1

\* whether no page text holds a page marker of its own
NoLiteralMarker == \A i \in 1..Len(rawPages) : FirstMarkerAt(rawPages[i]) = 0

\* C25: in splitChapters no block recognised as a header holds a page
\* marker, so, for page texts that hold no literal marker, every section
\* that header detection starts has no startPage and every section that a
\* following header closes has no endPage.
C25_HeaderSectionsCarryNoPage ==
  (Split /\ ~usedFallback /\ NoLiteralMarker) =>
    LET blocks == BlocksOf(AllText(rawPages))
        runs == BlockRuns(blocks)
        kept == SelectSeq(runs, LAMBDA r : Len(RunText(blocks, r)) > 50)
    IN /\ \A i \in 1..Len(blocks) : StartsSection(blocks[i]) => FirstMarkerAt(blocks[i]) = 0
       /\ Len(sections) = Len(kept)
       /\ \A k \in 1..Len(kept) :
            /\ StartsSection(blocks[kept[k].a]) => sections[k].startPage = NoPage
            /\ kept[k].b < Len(blocks) => sections[k].endPage = NoPage

\* a section started by a header and a section closed by one
C25_Witness ==
  /\ Split /\ ~usedFallback /\ NoLiteralMarker
  /\ Len(sections) >= 2
  /\ sections[1].endPage = NoPage
  /\ sections[2].startPage = NoPage
  /\ sections[2].title # <<"S","e","c","t","i","o","n"," ","1">>

\* C27: on the header-detection path of splitChapters at most one section
\* has an auto-generated title; it is titled "Section 1" and is the first
\* section of the output, made of the blocks before the first header.
C27_OnlyTheFirstSectionIsAutoTitled ==
  (Split /\ ~usedFallback) =>
    LET blocks == BlocksOf(AllText(rawPages))
        runs == BlockRuns(blocks)
        kept == SelectSeq(runs, LAMBDA r : Len(RunText(blocks, r)) > 50)
    IN /\ Len(sections) = Len(kept)
       /\ \A k \in 1..Len(kept) :
            IF StartsSection(blocks[kept[k].a])
            THEN sections[k].title = isLikelyHeader(FirstLine(blocks[kept[k].a])).title
            ELSE /\ k = 1 /\ kept[k].a = 1
                 /\ sections[k].title = <<"S","e","c","t","i","o","n"," ","1">>

\* an auto-titled first section followed by a header section
C27_Witness ==
  /\ Split /\ ~usedFallback
  /\ Len(sections) >= 2
  /\ sections[1].title = <<"S","e","c","t","i","o","n"," ","1">>
  /\ ~StartsSection(BlocksOf(AllText(rawPages))[1])
  /\ sections[2].title # <<"S","e","c","t","i","o","n"," ","1">>

(***************************************************************************)
(* The paragraphs and the citation of the composer (SpecAnswer).           *)
(***************************************************************************)
\* the pieces of a text between blank lines that are longer than 50
\* characters once trimmed
LongPieces(text) ==
  LET raw == SplitOnRuns(text, {"\n"}, 2)
  IN {i \in 1..Len(raw) : Len(Trim(raw[i])) > 50}

\* C26: in generateRuleBasedAnswer the paragraph list built from the cleaned
\* context never has more than one element, for any context: the cleaned
\* context holds no line break to split at.
C26_AtMostOneParagraphIsRanked ==
  Answered =>
    LET cleanContext == cleanContent(context)
    IN /\ \A i \in 1..Len(cleanContext) : cleanContext[i] # "\n"
       /\ Cardinality(LongPieces(cleanContext)) <= 1

\* a context of two long paragraphs separated by a blank line, answered by
\* the rule-based pipeline from its one cleaned paragraph
C26_Witness ==
  /\ RuleBased
  /\ Cardinality(LongPieces(context)) >= 2
  /\ Cardinality(LongPieces(cleanContent(context))) = 1
  /\ answer.kind = "ranked"

\* the section a citation has to name: the one with the active id, or else
\* the first of the list
CitedIndex ==
  IF \E i \in 1..Len(sections) : activeId = <<sections[i].id>>
  THEN CHOOSE i \in 1..Len(sections) :
         /\ activeId = <<sections[i].id>>
         /\ \A j \in 1..(i - 1) : activeId # <<sections[j].id>>
  ELSE 1

\* the text of an answer names the section of this title as its source
NamesSection(text, title) == Includes(text, <<"*","B","a","s","e","d"," ","o","n"," ","\"">> \o title \o <<"\""," ","f","r","o","m"," ">>)

\* the context of the all-sources scope of ChatPane.ask
AllSourcesContext == Join([i \in 1..Len(sections) |-> sections[i].text], <<"\n","\n">>)

\* the citation when the list of sections is empty
NoSourceCitation ==
  CitationLine((* "Source information not available" *)
      <<"S","o","u","r","c","e"," ","i","n","f","o","r","m","a","t","i","o","n"," ","n","o","t"," ","a",
      "v","a","i","l","a","b","l","e">>)

\* C28: the citation of demoAnswer names the section whose id equals
\* activeId, or the first section of the list when no id matches, whatever
\* section the text of the answer was taken from; the ranked answers and
\* the answers of the AI responder always end with it.
C28_CitationNamesTheActiveOrFirstSection ==
  (Answered /\ ~ContextIsBlank(context)) =>
    /\ answer.kind \in {"ranked", "ai"} =>
         /\ EndsWith(answer.text, <<"*">>)
         /\ IF Len(sections) = 0
            THEN EndsWith(answer.text, NoSourceCitation)
            ELSE Includes(answer.text, <<"\n","\n","*","B","a","s","e","d"," ","o","n"," ","\"">>)
    /\ \A k \in 1..Len(sections) :
         NamesSection(answer.text, sections[k].title)
           <=> /\ Includes(answer.text, <<"*","B","a","s","e","d"," ","o","n"," ","\"">>)
               /\ sections[k].title = sections[CitedIndex].title

\* under the all-sources scope with no active section, an answer that holds
\* the text of the second section is cited as the first section
C28_Witness ==
  /\ Answered /\ answer.kind = "ranked"
  /\ Len(sections) = 2 /\ activeId = NoId
  /\ context = AllSourcesContext
  /\ Includes(answer.text, (* "The hyphenated words of the closing paragraph are joined" *)
      <<"T","h","e"," ","h","y","p","h","e","n","a","t","e","d"," ","w","o","r","d","s"," ","o","f"," ",
      "t","h","e"," ","c","l","o","s","i","n","g"," ","p","a","r","a","g","r","a","p","h"," ","a","r",
      "e"," ","j","o","i","n","e","d">>)
  /\ NamesSection(answer.text, sections[1].title)
  /\ ~NamesSection(answer.text, sections[2].title)
(***************************************************************************)
(* The narration of generatePodcast (SpecPodcast).                         *)
(***************************************************************************)
\* the call has narrated once, as its format asks, and returned what its
\* Lemongrass outcome asks for
NarratedOnceAndReturned(call) ==
  /\ call.narrated = <<IF call.conversational THEN "script" ELSE "single">>
  /\ call.conversational =>
       /\ call.script # NoScript
       /\ call.spokenSegments = [i \in 1..Len(call.script[1]) |-> i - 1]
  /\ ~call.service => (call.apiStatus = "none" /\ call.returns = "null")
  /\ (call.service /\ call.apiStatus = "error") => call.returns = "null"
  /\ (call.service /\ call.apiStatus = "success") => call.returns = "result"
  /\ call.service => call.apiStatus \in {"success", "error"}

\* C22: every call of generatePodcast narrates through the browser speech
\* synthesis exactly once, whatever the Lemongrass outcome: without a
\* service it narrates (the script of the two hosts, or the content as one
\* utterance) and returns null, with an error result it narrates and
\* returns null, with a successful result it narrates and returns the
\* result.
C22_EveryCallNarratesOnce ==
  \A c \in 1..Len(podcasts) :
    /\ Len(podcasts[c].narrated) <= 1
    /\ podcasts[c].pc \in {"awaitScript", "awaitService"} => podcasts[c].narrated = << >>
    /\ podcasts[c].pc = "awaitNarration" =>
         (podcasts[c].narrated = <<"script">> /\ ~threw)
    /\ podcasts[c].pc = "done" => NarratedOnceAndReturned(podcasts[c])

(***************************************************************************)
(* The EnhancedTTSManager (SpecTTS, SpecPlayback).                         *)
(***************************************************************************)
\* a progress within 0..100: the quotient is a number, not NaN or Infinity
InRange(progress) ==
  /\ progress.den > 0
  /\ 0 <= progress.num /\ progress.num <= 100 * progress.den

\* C23: the state of the manager always has its progress within 0..100 and
\* its currentTime at most its totalTime, after any sequence of play, pause,
\* stop, skip, segment-end events and periodic updates, pause pressed twice
\* included.
C23_ProgressStaysWithinRange ==
  /\ InRange(ttsManager.state.progress)
  /\ ttsManager.state.currentTime <= ttsManager.state.totalTime

\* C24: after stop() has returned no further segment is spoken, and the
\* state stays at isPlaying = false and currentSegment = 0, until play() or
\* playScript() is called again, whatever timer or late callback of an
\* utterance is still to run.
C24_StopIsFinal ==
  stopped # << >> =>
    /\ Len(spoken) = stopped[1]
    /\ ~ttsManager.state.isPlaying
    /\ ttsManager.state.currentSegment = 0

\* the script of the manager, once one is loaded
Loaded == ttsManager.script # NoScript
Segments == ttsManager.script[1]

\* C30: once a script of at least one segment is loaded,
\* 0 <= currentSegment < totalSegments holds between any two handlers
\* (play, pause, stop, skip, the end or error of an utterance, the timer
\* between two segments), for every interleaving of them.
C30_CurrentSegmentIsWithinTheScript ==
  (Loaded /\ Len(Segments) >= 1) =>
    /\ ttsManager.state.totalSegments = Len(Segments)
    /\ 0 <= ttsManager.state.currentSegment
    /\ ttsManager.state.currentSegment < ttsManager.state.totalSegments

\* a timer that outlived stop() has moved the manager to its last segment
C30_Witness ==
  /\ Loaded /\ Len(Segments) = MaxSegments
  /\ stopped # << >> /\ Len(spoken) > stopped[1]
  /\ ttsManager.state.currentSegment = MaxSegments - 1

\* the segments spoken so far are the first ones of the script, in order
SpokenInOrder == \A i \in 1..Len(spoken) : spoken[i] = i - 1

\* every segment was spoken and the manager is stopped
PlayedOut ==
  /\ Loaded
  /\ Len(spoken) = Len(Segments)
  /\ ~ttsManager.state.isPlaying /\ ~ttsManager.state.isPaused
  /\ ttsManager.state.currentSegment = 0

\* C29: a script of n >= 1 segments started with playScript and left alone
\* has, if every utterance ends or fails, each segment spoken exactly once
\* in index order, and the manager ends in its stopped state
\* (isPlaying = false, isPaused = false, currentSegment = 0).
C29_EverySegmentIsSpokenOnce ==
  /\ [](Loaded => SpokenInOrder)
  /\ (Loaded ~> PlayedOut)

\* the voice lists with which getVoiceForSpeaker returns for both hosts
VoicesAreFound ==
  \A speaker \in {"host1", "host2"} :
    getVoiceForSpeaker(speaker, voices) # VoiceTypeError

\* C29, in the browsers whose voices are found
C29_EverySegmentIsSpokenOnceWhenVoicesAreFound ==
  /\ [](Loaded => SpokenInOrder)
  /\ ((Loaded /\ VoicesAreFound) ~> PlayedOut)
====
